---- MODULE Spec2Model ----
(***************************************************************************)
(* Musinsa shopping assistant: the search loops of the three agents and of *)
(* the interactive recommender, the interactive session loop of main.py,   *)
(* and the heuristic relevance scorer and top-N selection of               *)
(* PreferenceBasedRecommendationAgent.                                     *)
(*                                                                         *)
(* Nine specifications share the variables below; each one drives its     *)
(* own group of variables and leaves the others at their idle values:      *)
(*   Spec        one request through one of the four search loops          *)
(*   SpecMain    the interactive session of main()                         *)
(*   SpecSelect  one call of select_top_products                           *)
(*   SpecScore   calls of _calculate_relevance_score                       *)
(*   SpecCompare one call of compare_products, from the extracted records  *)
(*   SpecPrice   one call of extract_price_info                            *)
(*   SpecRating  one call of extract_rating_info                           *)
(*   SpecFormat  one call of format_recommendations                        *)
(*   SpecParse   one call of parse_preference_keywords                     *)
(***************************************************************************)
EXTENDS Integers, Sequences, FiniteSets, TLC

VARIABLES
    \* ---- one search request (Spec) ----
    op,               \* which loop runs: "spi", "ssp", "cr", "spt"
    pc,               \* "primary", "fallback", "done", "raised"
    qi,               \* index of the next query of the running loop
    musinsa_results,  \* preferred bucket (musinsa_results / musinsa_products / musinsa_reviews)
    all_results,      \* general bucket (all_results / general_products)
    seen_urls,        \* collect_reviews: lower-cased URLs already collected
    calls,            \* search calls made to the collaborator so far, in order
    rcvd,             \* number of results received so far
    returned,         \* the value the operation returned (NotReturned before)
    outcome,          \* what the caller of the operation did with the value
    \* ---- the interactive session (SpecMain) ----
    mpc,              \* "start", "menu", "feature", "continue_prompt", "exited"
    TASTE_RECOMMENDATION_AVAILABLE,
    env_openai_key,   \* OPENAI_API_KEY is in the environment / .env
    choice,           \* the menu choice being served (0: none)
    exit_reason,      \* how the session ended ("" while it runs)
    last_event,       \* what the last step of the session did
    session_log,      \* the menu choices served so far
    \* ---- select_top_products (SpecSelect) ----
    spc,              \* "input", "selected"
    products,         \* the candidate list passed in
    sel_prefs,        \* the preferences record passed in
    top_n,
    selected,         \* the returned list, as indices into products
    \* ---- _calculate_relevance_score (SpecScore) ----
    rpc,              \* "input", "scored"
    cand,             \* [name, content]: the candidate's texts
    score_prefs,      \* the preferences record
    extra_keyword,    \* one more free keyword
    score,            \* score under score_prefs
    score_more,       \* score with extra_keyword appended to the free keywords
    score_nokw,       \* score with no free keywords
    \* ---- compare_products (SpecCompare) ----
    cpc,              \* "input", "compared"
    infos,            \* per product name, what the extractors returned for it
    products_data,    \* the products with their value scores, after the sort
    report,           \* what compare_products returned
    \* ---- extract_price_info (SpecPrice) ----
    xpc,              \* "input", "extracted"
    search_results,   \* the results passed in
    price_info,       \* the returned PriceInfo
    simple_discount,  \* discount_rate of _extract_price on the same text
    \* ---- extract_rating_info (SpecRating) ----
    gpc,              \* "input", "extracted"
    rating_results,   \* the results passed in
    rating_info,      \* the returned rating record
    \* ---- format_recommendations (SpecFormat) ----
    fpc,              \* "scoring", "formatted"
    response,         \* response['results']: the products to score
    user_keywords,
    answers,          \* what the LLM call did for each product scored so far
    scored_products,  \* the products scored so far, with score and reason
    recommendations,  \* the returned list
    \* ---- parse_preference_keywords (SpecParse) ----
    ppc,              \* "input", "parsed"
    preference_input, \* the text typed by the user
    preferences       \* the returned preferences record

searchVars == <<op, pc, qi, musinsa_results, all_results, seen_urls, calls, rcvd, returned,
                outcome>>
mainVars == <<mpc, TASTE_RECOMMENDATION_AVAILABLE, env_openai_key, choice, exit_reason,
              last_event, session_log>>
selectVars == <<spc, products, sel_prefs, top_n, selected>>
scoreVars == <<rpc, cand, score_prefs, extra_keyword, score, score_more, score_nokw>>
compareVars == <<cpc, infos, products_data, report>>
priceVars == <<xpc, search_results, price_info, simple_discount>>
ratingVars == <<gpc, rating_results, rating_info>>
formatVars == <<fpc, response, user_keywords, answers, scored_products, recommendations>>
parseVars == <<ppc, preference_input, preferences>>
vars == <<searchVars, mainVars, selectVars, scoreVars, compareVars, priceVars, ratingVars,
          formatVars, parseVars>>

None == "None"
\* return values: not returned yet, a list, or None
NotReturned == [kind |-> "unset", results |-> <<>>]
ReturnedList(s) == [kind |-> "list", results |-> s]
ReturnedNone == [kind |-> "None", results |-> <<>>]
\* what the caller did: nothing yet; `what` is what it returned or printed, `ran`
\* whether it ran the step that works on the results
NoOutcome == [what |-> "", ran |-> FALSE]

\* Python's None where an optional number is expected (price, budget_min,
\* budget_max); amounts are in won.
NoneInt == -1

\* Python truthiness of an optional number: None and 0 are both false
Truthy(x) == x # NoneInt /\ x # 0

\* ---------------------------------------------------------------- helpers

Range(s) == {s[i] : i \in 1..Len(s)}

Min(a, b) == IF a <= b THEN a ELSE b

IsPrefix(s, t) == Len(s) <= Len(t) /\ \A i \in 1..Len(s) : s[i] = t[i]

RECURSIVE SeqsUpTo(_, _)
\* the sequences over S of length at most n in which no element repeats
SeqsUpTo(S, n) ==
    IF n = 0 THEN {<<>>}
    ELSE LET shorter == SeqsUpTo(S, n - 1)
         IN shorter \cup UNION {{Append(s, x) : x \in S \ Range(s)} :
                                   s \in {t \in shorter : Len(t) = n - 1}}

\* ------------------------------------------------ the search collaborator

\* Bounds of the model: queries per loop and results per response.
NumPrimary == 2
NumFallback == 2
MaxResults == 2
\* ... and results received in one request
MaxReceived == 4

\* `if len(musinsa_results) < 3` / `if len(musinsa_products) < 3`
FallbackThreshold == 3
\* `unique_results[:15]`
MaxReturned == 15

\* The search hits the collaborator may return (url, title, content).  Korean
\* words are written romanised in braces: {mu-sin-sa} is the marketplace's
\* Korean name.
R1 == [url |-> "https://www.musinsa.com/products/1", title |-> "coat A",
       content |-> "{mu-sin-sa} coat A {hu-gi}"]
R2 == [url |-> "https://blog.example.com/b", title |-> "{mu-sin-sa} coat B",
       content |-> "coat B {ri-byu}"]
R3 == [url |-> "https://shop.example.com/c", title |-> "coat A",
       content |-> "coat A {choe-jeo-ga}"]
R4 == [url |-> "https://WWW.MUSINSA.COM/products/1", title |-> "", content |-> ""]
R5 == [url |-> "https://WWW.MUSINSA.COM/products/1", title |-> "coat A",
       content |-> "coat A {hu-gi}"]
Catalogue == {R1, R2, R3, R4, R5}

\* One response: at most MaxResults hits, no hit twice in one response.
Responses == SeqsUpTo(Catalogue, MaxResults)

\* str.lower() on the URLs and words of the model
Lower(s) ==
    CASE s = "https://WWW.MUSINSA.COM/products/1" -> "https://www.musinsa.com/products/1"
      [] s = "MUSINSA.com" -> "musinsa.com"
      [] s = "Coat" -> "coat"
      [] s = "Wool" -> "wool"
      [] OTHER -> s

\* `"musinsa" in url` for a lower-cased url
UrlHasMusinsa(u) == u = "https://www.musinsa.com/products/1"
\* `"musinsa.com" in url`
UrlHasMusinsaCom(u) == u = "https://www.musinsa.com/products/1"
\* `'musinsa.com/products/' in url_lower`
UrlIsProductPage(u) == u = "https://www.musinsa.com/products/1"
\* `"{mu-sin-sa}" in content or "musinsa" in content` (content lower-cased)
ContentHasMusinsa(c) == c = "{mu-sin-sa} coat A {hu-gi}"
\* `"{mu-sin-sa}" in name`
NameHasMusinsa(n) == n = "{mu-sin-sa} coat B"

\* _extract_product_info: the product name, None when the hit has no usable text
\* (no catalogue content holds a 10..80 character line that would replace an
\* empty title).
ProductName(r) ==
    IF r.content = "" /\ r.title = "" THEN None
    ELSE IF r.title = "" THEN None
    ELSE r.title

\* search_product_info, first loop: the marketplace test
IsMusinsaResult(r) == UrlHasMusinsa(Lower(r.url)) \/ ContentHasMusinsa(r.content)

\* search_similar_products, first loop: the marketplace test (adds the name)
IsMusinsaProduct(r) ==
    \/ UrlHasMusinsa(Lower(r.url))
    \/ ContentHasMusinsa(r.content)
    \/ NameHasMusinsa(ProductName(r))

\* both fallback loops: only hits without the marker in url and content
IsGeneralResult(r) == ~UrlHasMusinsa(Lower(r.url)) /\ ~ContentHasMusinsa(r.content)

\* a variant of ReviewUrlKey: the url as it was returned
RawUrlKey(r) == r.url

\* collect_reviews: `url = result.get("url", "").lower()`, the key of seen_urls
ReviewUrlKey(r) == Lower(r.url)

\* collect_reviews: is_musinsa_domain
is_musinsa_domain(r) == UrlHasMusinsaCom(Lower(r.url))

\* the loops with a second, general loop
HasFallback(o) == o \in {"spi", "ssp"}

\* the accumulators of a loop
Acc(m, a, s, n) == [musinsa |-> m, all |-> a, seen |-> s, n |-> n]

\* What one loop body does with one result of a successful response.
HandleResult(o, phase, st, r) ==
    LET item == [rcv |-> st.n + 1, r |-> r]
        st1 == [st EXCEPT !.n = st.n + 1]
    IN CASE o = "spi" /\ phase = "primary" ->
              IF IsMusinsaResult(r)
              THEN [st1 EXCEPT !.musinsa = Append(st.musinsa, item)]
              ELSE [st1 EXCEPT !.all = Append(st.all, item)]
         [] o = "ssp" /\ phase = "primary" ->
              IF ProductName(r) = None THEN st1
              ELSE IF IsMusinsaProduct(r)
              THEN [st1 EXCEPT !.musinsa = Append(st.musinsa, item)]
              ELSE [st1 EXCEPT !.all = Append(st.all, item)]
         [] o = "spi" /\ phase = "fallback" ->
              IF IsGeneralResult(r)
              THEN [st1 EXCEPT !.all = Append(st.all, item)]
              ELSE st1
         [] o = "ssp" /\ phase = "fallback" ->
              IF ProductName(r) # None /\ IsGeneralResult(r)
              THEN [st1 EXCEPT !.all = Append(st.all, item)]
              ELSE st1
         [] o = "cr" ->
              IF r.content # "" /\ is_musinsa_domain(r) /\ ReviewUrlKey(r) \notin st.seen
              THEN [st1 EXCEPT !.seen = st.seen \cup {ReviewUrlKey(r)},
                               !.musinsa = Append(st.musinsa, item)]
              ELSE st1
         [] OTHER ->  \* "spt": filter_product_pages, then all_results.extend
              IF UrlIsProductPage(Lower(r.url))
              THEN [st1 EXCEPT !.all = Append(st.all, item)]
              ELSE st1

RECURSIVE HandleResponse(_, _, _, _)
\* `for result in response["results"]`
HandleResponse(o, phase, st, resp) ==
    IF resp = <<>> THEN st
    ELSE HandleResponse(o, phase, HandleResult(o, phase, st, Head(resp)), Tail(resp))

\* ---------------------------------------------------- the search loops

\* the outcome of one search call: a response, or the call raises
Fail == [ok |-> FALSE, results |-> <<>>]
Outcomes == {[ok |-> TRUE, results |-> resp] : resp \in Responses} \cup {Fail}

\* number of queries of a loop
NumQueries(o, phase) ==
    IF phase = "primary" THEN NumPrimary
    ELSE IF HasFallback(o) THEN NumFallback ELSE 0

\* a variant of CatchesSearchError: collect_reviews lets the exception through
CatchesAllButReviews(o) == o \in {"spi", "ssp", "spt"}

\* `except Exception ... continue` around every search call
CatchesSearchError(o) == o \in {"spi", "ssp", "cr", "spt"}

\* a variant of RetriesWithoutDomains: every loop calls again after a failure
RetriesEverywhere(o) == o \in {"spi", "ssp", "cr", "spt"}

\* search_products_with_tavily calls again, without include_domains, in its handler
RetriesWithoutDomains(o) == o = "spt"

\* search_products_with_tavily passes include_domains on its first call
UsesDomainFilter(o) == o = "spt"

\* a variant of Combine: the general bucket first
CombineGeneralFirst(m, a) == a \o m

\* `final_results = musinsa_results + all_results`
Combine(m, a) == m \o a

RECURSIVE AddUnique(_, _, _)
\* one de-duplication loop of search_similar_products: <<unique_products, seen_names>>
AddUnique(list, unique, seen_names) ==
    IF list = <<>> THEN <<unique, seen_names>>
    ELSE LET name == ProductName(Head(list).r)
         IN IF name # "" /\ name # None /\ name \notin seen_names
            THEN AddUnique(Tail(list), Append(unique, Head(list)), seen_names \cup {name})
            ELSE AddUnique(Tail(list), unique, seen_names)

\* a variant of UniqueProducts: the general products first
UniqueGeneralFirst(m, a) ==
    LET first == AddUnique(a, <<>>, {})
    IN AddUnique(m, first[1], first[2])[1]

\* search_similar_products: musinsa products first, then the general ones
UniqueProducts(m, a) ==
    LET first == AddUnique(m, <<>>, {})
    IN AddUnique(a, first[1], first[2])[1]

RECURSIVE UniqueByUrl(_, _, _)
\* search_products_with_tavily: de-duplication by (raw) url
UniqueByUrl(list, unique, seen) ==
    IF list = <<>> THEN unique
    ELSE LET url == Head(list).r.url
         IN IF url # "" /\ url \notin seen
            THEN UniqueByUrl(Tail(list), Append(unique, Head(list)), seen \cup {url})
            ELSE UniqueByUrl(Tail(list), unique, seen)

\* what the operation returns once its loops are over
ReturnValue(o, st) ==
    CASE o = "spi" -> ReturnedList(Combine(st.musinsa, st.all))
      [] o = "ssp" -> ReturnedList(UniqueProducts(st.musinsa, st.all))
      [] o = "cr" -> ReturnedList(st.musinsa)
      [] OTHER ->
           LET unique_results == UniqueByUrl(st.all, <<>>, {})
           IN IF unique_results # <<>>
              THEN ReturnedList(SubSeq(unique_results, 1,
                                       Min(MaxReturned, Len(unique_results))))
              ELSE ReturnedNone

\* a variant of NeedsFallback: the general loop always runs
FallbackAlways(m) == TRUE

\* `if len(musinsa_results) < 3:` / `if len(musinsa_products) < 3:`
NeedsFallback(m) == Len(m) < FallbackThreshold

\* One iteration of a search loop: the call (and, where the handler makes one,
\* the second call), the handling of the response, and, after the last query,
\* the step to the next loop or the return.
LoopStep(phase) ==
    /\ pc = phase
    /\ qi <= NumQueries(op, phase)
    /\ \E out1 \in Outcomes, out2 \in Outcomes :
         LET retry == out1 = Fail /\ RetriesWithoutDomains(op)
             first == [phase |-> phase, q |-> qi, domains |-> UsesDomainFilter(op),
                       ok |-> out1 # Fail, got |-> out1.results]
             second == [phase |-> phase, q |-> qi, domains |-> FALSE, ok |-> out2 # Fail,
                        got |-> out2.results]
             out == IF retry THEN out2 ELSE out1
             st0 == Acc(musinsa_results, all_results, seen_urls, rcvd)
             st1 == IF out = Fail THEN st0 ELSE HandleResponse(op, phase, st0, out.results)
             last == qi = NumQueries(op, phase)
             more == /\ phase = "primary"
                     /\ HasFallback(op)
                     /\ NeedsFallback(st1.musinsa)
                     /\ NumQueries(op, "fallback") > 0
         IN /\ ~retry => out2 = Fail
            /\ rcvd + Len(out.results) <= MaxReceived
            /\ calls' = IF retry THEN calls \o <<first, second>> ELSE Append(calls, first)
            /\ IF out = Fail /\ ~CatchesSearchError(op)
               THEN /\ pc' = "raised"
                    /\ UNCHANGED <<qi, musinsa_results, all_results, seen_urls, rcvd, returned>>
               ELSE /\ musinsa_results' = st1.musinsa
                    /\ all_results' = st1.all
                    /\ seen_urls' = st1.seen
                    /\ rcvd' = st1.n
                    /\ pc' = IF ~last THEN phase ELSE IF more THEN "fallback" ELSE "done"
                    /\ qi' = IF ~last THEN qi + 1 ELSE 1
                    /\ returned' = IF last /\ ~more THEN ReturnValue(op, st1) ELSE returned
    /\ UNCHANGED <<op, outcome, mainVars, selectVars, scoreVars, compareVars, priceVars,
                   ratingVars,
                 formatVars, parseVars>>

\* a variant of NoResults: the caller never takes the list for empty
NeverEmpty(ret) == FALSE

\* `if not products` / `if not reviews` /
\* `if not response or not response.get("results")`
NoResults(ret) == ret.kind = "None" \/ ret.results = <<>>

\* What the caller does with the value returned: recommend_products and
\* summarize_reviews return their warning and run_taste_recommendation prints
\* its message when there are no results, else they go on to
\* select_top_products / analyze_reviews / format_recommendations;
\* compare_products runs the extractors on whatever search_product_info returned.
CallerOutcome(o, ret) ==
    CASE o = "spi" -> [what |-> "table", ran |-> TRUE]
      [] o = "ssp" -> IF NoResults(ret) THEN [what |-> "no_results", ran |-> FALSE]
                      ELSE [what |-> "recommendation", ran |-> TRUE]
      [] o = "cr" -> IF NoResults(ret) THEN [what |-> "no_results", ran |-> FALSE]
                     ELSE [what |-> "summary", ran |-> TRUE]
      [] OTHER -> IF NoResults(ret) THEN [what |-> "no_results", ran |-> FALSE]
                  ELSE [what |-> "recommendations", ran |-> TRUE]

\* the caller's step after the search operation has returned
Caller ==
    /\ pc = "done"
    /\ outcome = NoOutcome
    /\ outcome' = CallerOutcome(op, returned)
    /\ UNCHANGED <<op, pc, qi, musinsa_results, all_results, seen_urls, calls, rcvd, returned>>
    /\ UNCHANGED <<mainVars, selectVars, scoreVars, compareVars, priceVars, ratingVars,
                 formatVars, parseVars>>

\* one iteration of the first loop (every operation has one)
PrimaryQuery ==
    /\ op \in {"spi", "ssp", "cr", "spt"}
    /\ LoopStep("primary")

\* one iteration of the general loop of search_product_info / search_similar_products
FallbackQuery ==
    /\ HasFallback(op)
    /\ LoopStep("fallback")

MainIdle ==
    /\ mpc = "idle" /\ TASTE_RECOMMENDATION_AVAILABLE = FALSE /\ env_openai_key = FALSE
    /\ choice = 0 /\ exit_reason = "" /\ last_event = [what |-> "", exc |-> "none"]
    /\ session_log = <<>>

SelectIdle ==
    /\ spc = "idle" /\ products = <<>> /\ sel_prefs = [budget_min |-> NoneInt, budget_max |-> NoneInt]
    /\ top_n = 0 /\ selected = <<>>

ScoreIdle ==
    /\ rpc = "idle" /\ cand = None /\ score_prefs = None /\ extra_keyword = None
    /\ score = 0 /\ score_more = 0 /\ score_nokw = 0

\* shipping_cost "{chak-bul}" (cash on delivery), where a number is expected
CashOnDelivery == -2

\* the PriceInfo with which extract_price_info starts
EmptyPriceInfo ==
    [current_price |-> NoneInt, original_price |-> NoneInt, discount_rate |-> NoneInt,
     shipping_cost |-> NoneInt, final_price |-> NoneInt]

\* the rating record with which extract_rating_info starts
EmptyRatingInfo ==
    [musinsa_rating |-> NoneInt, average_rating |-> NoneInt, review_count |-> NoneInt]

CompareIdle ==
    /\ cpc = "idle" /\ infos = <<>> /\ products_data = <<>>
    /\ report = [kind |-> "none", final_recommendation |-> 0]

PriceIdle ==
    /\ xpc = "idle" /\ search_results = <<>> /\ price_info = EmptyPriceInfo
    /\ simple_discount = NoneInt

RatingIdle ==
    /\ gpc = "idle" /\ rating_results = <<>> /\ rating_info = EmptyRatingInfo

FormatIdle ==
    /\ fpc = "idle" /\ response = <<>> /\ user_keywords = <<>> /\ answers = <<>>
    /\ scored_products = <<>> /\ recommendations = <<>>

ParseIdle ==
    /\ ppc = "idle" /\ preference_input = None
    /\ preferences = [budget_min |-> NoneInt, budget_max |-> NoneInt]

SearchIdle ==
    /\ op = "none" /\ pc = "idle" /\ qi = 0 /\ musinsa_results = <<>> /\ all_results = <<>>
    /\ seen_urls = {} /\ calls = <<>> /\ rcvd = 0 /\ returned = NotReturned
    /\ outcome = NoOutcome

Init ==
    /\ op \in {"spi", "ssp", "cr", "spt"}
    /\ pc = "primary"
    /\ qi = 1
    /\ musinsa_results = <<>>
    /\ all_results = <<>>
    /\ seen_urls = {}
    /\ calls = <<>>
    /\ rcvd = 0
    /\ returned = NotReturned
    /\ outcome = NoOutcome
    /\ MainIdle /\ SelectIdle /\ ScoreIdle
    /\ CompareIdle /\ PriceIdle /\ RatingIdle
    /\ FormatIdle /\ ParseIdle

Next == PrimaryQuery \/ FallbackQuery \/ Caller

Spec == Init /\ [][Next]_vars

\* ------------------------------------------------- the interactive session

\* Bound of the model: menu choices served in one session.
MaxRounds == 3

\* `max_choice = 5 if TASTE_RECOMMENDATION_AVAILABLE else 4`
max_choice == IF TASTE_RECOMMENDATION_AVAILABLE THEN 5 ELSE 4

\* `exit_choice = 5 if TASTE_RECOMMENDATION_AVAILABLE else 4`
exit_choice == IF TASTE_RECOMMENDATION_AVAILABLE THEN 5 ELSE 4

\* a step of the session that raised nothing
Event(what) == [what |-> what, exc |-> "none"]

\* a variant of MainHandles: `except Exception` re-raises
MainPropagatesException(exc) ==
    CASE exc = "KeyboardInterrupt" -> "break"
      [] exc = "Exception" -> "propagate"
      [] OTHER -> "propagate"

\* a variant of MainHandles: the loop also catches SystemExit
MainCatchesSystemExit(exc) ==
    CASE exc = "KeyboardInterrupt" -> "break"
      [] exc = "Exception" -> "continue"
      [] OTHER -> "continue"

\* The handlers of main()'s loop: `except KeyboardInterrupt: break`,
\* `except Exception: ... (continue)`; SystemExit is a BaseException that
\* neither clause catches.
MainHandles(exc) ==
    CASE exc = "KeyboardInterrupt" -> "break"
      [] exc = "Exception" -> "continue"
      [] OTHER -> "propagate"

\* The session after `exc` was raised inside the loop body, with `event` what
\* raised it.
Raised(exc, event) ==
    /\ last_event' = [what |-> event, exc |-> exc]
    /\ CASE MainHandles(exc) = "break" ->
              mpc' = "exited" /\ exit_reason' = "keyboard_interrupt"
         [] MainHandles(exc) = "continue" ->
              mpc' = "menu" /\ exit_reason' = exit_reason
         [] OTHER ->
              /\ mpc' = "exited"
              /\ exit_reason' = IF exc = "SystemExit" THEN "sys_exit"
                                ELSE "uncaught_exception"

\* what input() can do besides returning text
InputRaises == {"KeyboardInterrupt", "Exception"}

\* check_api_key(), called before the loop and outside its try: the key is
\* there (or typed in), or the prompt is left blank and sys.exit(0) ends the
\* process.
CheckApiKey ==
    /\ mpc = "start"
    /\ \E answer \in {"key", "blank"} :
         IF answer = "key"
         THEN mpc' = "menu" /\ last_event' = Event("api_key_ok") /\ exit_reason' = exit_reason
         ELSE /\ mpc' = "exited" /\ last_event' = Event("blank_tavily_key")
              /\ exit_reason' = "sys_exit"
    /\ UNCHANGED <<TASTE_RECOMMENDATION_AVAILABLE, env_openai_key, choice, session_log>>
    /\ UNCHANGED <<searchVars, selectVars, scoreVars, compareVars, priceVars, ratingVars,
                 formatVars, parseVars>>

\* print_menu() and get_user_choice(): the choice is read until it is a number
\* in range; a keyboard interrupt there calls sys.exit(0), any other exception
\* of input() reaches main()'s handlers.
ChooseMenu ==
    /\ mpc = "menu"
    /\ Len(session_log) < MaxRounds
    /\ \/ \E c \in 1..max_choice :
            /\ choice' = c
            /\ mpc' = "feature"
            /\ last_event' = Event("chosen")
            /\ session_log' = Append(session_log, c)
            /\ exit_reason' = exit_reason
       \/ /\ mpc' = "exited"
          /\ exit_reason' = "keyboard_interrupt"
          /\ last_event' = Event("interrupt_at_menu")
          /\ UNCHANGED <<choice, session_log>>
       \/ /\ Raised("Exception", "input_error_at_menu")
          /\ UNCHANGED <<choice, session_log>>
    /\ UNCHANGED <<TASTE_RECOMMENDATION_AVAILABLE, env_openai_key>>
    /\ UNCHANGED <<searchVars, selectVars, scoreVars, compareVars, priceVars, ratingVars,
                 formatVars, parseVars>>

\* One of run_price_comparison, run_preference_recommendation,
\* run_review_summary, run_taste_recommendation: it returns (also after an
\* error it caught and printed itself), or an exception leaves it (its input()
\* calls are outside its try; a keyboard interrupt is no Exception).
RunFeature ==
    \/ /\ mpc' = "continue_prompt" /\ last_event' = Event("feature_returned")
       /\ exit_reason' = exit_reason
    \/ \E exc \in InputRaises : Raised(exc, "feature_raised")

\* The dispatch on the choice: a feature, or the exit choice.
RunChoice ==
    /\ mpc = "feature"
    /\ IF choice = exit_choice
       THEN mpc' = "exited" /\ exit_reason' = "exit_choice" /\ last_event' = Event("exit_chosen")
       ELSE IF choice = 4
       THEN \* check_openai_api_key(), then run_taste_recommendation
            \/ /\ env_openai_key
               /\ RunFeature
            \/ /\ ~env_openai_key
               /\ \/ RunFeature                                  \* a key is typed in
                  \/ Raised("SystemExit", "blank_openai_key")    \* left blank: sys.exit(0)
                  \/ \E exc \in InputRaises : Raised(exc, "key_prompt_raised")
       ELSE RunFeature
    /\ UNCHANGED <<TASTE_RECOMMENDATION_AVAILABLE, env_openai_key, choice, session_log>>
    /\ UNCHANGED <<searchVars, selectVars, scoreVars, compareVars, priceVars, ratingVars,
                 formatVars, parseVars>>

\* The prompt after a feature: go on only on 'y', 'yes' and their Korean forms.
AnswerContinue ==
    /\ mpc = "continue_prompt"
    /\ \/ mpc' = "menu" /\ last_event' = Event("continue_yes") /\ exit_reason' = exit_reason
       \/ mpc' = "exited" /\ last_event' = Event("continue_no") /\ exit_reason' = "declined"
       \/ \E exc \in InputRaises : Raised(exc, "continue_prompt_raised")
    /\ UNCHANGED <<TASTE_RECOMMENDATION_AVAILABLE, env_openai_key, choice, session_log>>
    /\ UNCHANGED <<searchVars, selectVars, scoreVars, compareVars, priceVars, ratingVars,
                 formatVars, parseVars>>

InitMain ==
    /\ mpc = "start"
    /\ TASTE_RECOMMENDATION_AVAILABLE \in BOOLEAN
    /\ env_openai_key \in BOOLEAN
    /\ choice = 0
    /\ exit_reason = ""
    /\ last_event = Event("")
    /\ session_log = <<>>
    /\ SearchIdle /\ SelectIdle /\ ScoreIdle
    /\ CompareIdle /\ PriceIdle /\ RatingIdle
    /\ FormatIdle /\ ParseIdle

NextMain == CheckApiKey \/ ChooseMenu \/ RunChoice \/ AnswerContinue

SpecMain == InitMain /\ [][NextMain]_vars

\* ------------------------------------------------- select_top_products

\* Bounds of the model: candidates passed in, and top_n.
MaxProducts == 3
MaxTopN == 3

\* the relevance scores and prices the candidates are drawn from
ScoreValues == {50, 80}
PriceValues == {NoneInt, 69000, 70000, 260000, 261000}

\* (budget_min, budget_max) as parse_preference_keywords can leave them: no
\* budget, 0 to 200,000 won, 100,000 to 200,000 won, and a range whose upper
\* end is 0
BudgetPairs ==
    {<<NoneInt, NoneInt>>, <<0, 200000>>, <<100000, 200000>>, <<100000, 0>>}

RECURSIVE AllSeqs(_, _)
\* the sequences over S of length at most n
AllSeqs(S, n) ==
    IF n = 0 THEN {<<>>}
    ELSE LET shorter == AllSeqs(S, n - 1)
         IN shorter \cup {Append(s, x) : s \in {t \in shorter : Len(t) = n - 1}, x \in S}

Candidates == [relevance_score : ScoreValues, price : PriceValues]

\* spec.md section 8: five candidates with scores 90, 80, 70, 60, 50
ExampleProducts ==
    [i \in 1..5 |-> [relevance_score |-> 100 - 10 * i, price |-> NoneInt]]

\* a variant of InsertByScore: a candidate goes before the ones of equal score
InsertBeforeTies(ps, sorted, i) ==
    LET before == {k \in 1..Len(sorted) :
                     ps[sorted[k]].relevance_score > ps[i].relevance_score}
        n == Cardinality(before)
    IN SubSeq(sorted, 1, n) \o <<i>> \o SubSeq(sorted, n + 1, Len(sorted))

\* sorted(..., reverse=True) is stable: a candidate goes after every candidate
\* already placed whose score is greater or equal
InsertByScore(ps, sorted, i) ==
    LET before == {k \in 1..Len(sorted) :
                     ps[sorted[k]].relevance_score >= ps[i].relevance_score}
        n == Cardinality(before)
    IN SubSeq(sorted, 1, n) \o <<i>> \o SubSeq(sorted, n + 1, Len(sorted))

RECURSIVE SortFrom(_, _, _)
SortFrom(ps, sorted, i) ==
    IF i > Len(ps) THEN sorted
    ELSE SortFrom(ps, InsertByScore(ps, sorted, i), i + 1)

\* `sorted(products, key=lambda x: x.get("relevance_score", 0), reverse=True)`,
\* as the candidates' positions in products
sorted_products(ps) == SortFrom(ps, <<>>, 1)

\* `preferences["budget_min"] * 0.7 <= price <= preferences["budget_max"] * 1.3`
\* (on whole amounts the float products compare as the exact ones do)
NearBudget(price, prefs) ==
    7 * prefs.budget_min <= 10 * price /\ 10 * price <= 13 * prefs.budget_max

RECURSIVE FilterByBudget(_, _, _)
\* the loop building filtered_products
FilterByBudget(ps, list, prefs) ==
    IF list = <<>> THEN <<>>
    ELSE LET price == ps[Head(list)].price
             rest == FilterByBudget(ps, Tail(list), prefs)
         IN IF Truthy(price)
            THEN IF NearBudget(price, prefs) THEN <<Head(list)>> \o rest ELSE rest
            ELSE <<Head(list)>> \o rest

\* a variant of Truncate: one item too many
TruncateOneMore(list, n) == SubSeq(list, 1, Min(n + 1, Len(list)))

\* `sorted_products[:top_n]`, top_n >= 0
Truncate(list, n) == SubSeq(list, 1, Min(n, Len(list)))

select_top_products(ps, prefs, n) ==
    LET sorted == sorted_products(ps)
        filtered == IF Truthy(prefs.budget_min) /\ Truthy(prefs.budget_max)
                    THEN FilterByBudget(ps, sorted, prefs)
                    ELSE <<>>
    IN Truncate(IF filtered # <<>> THEN filtered ELSE sorted, n)

Select ==
    /\ spc = "input"
    /\ selected' = select_top_products(products, sel_prefs, top_n)
    /\ spc' = "selected"
    /\ UNCHANGED <<products, sel_prefs, top_n>>
    /\ UNCHANGED <<searchVars, mainVars, scoreVars, compareVars, priceVars, ratingVars,
                 formatVars, parseVars>>

InitSelect ==
    /\ spc = "input"
    /\ products \in AllSeqs(Candidates, MaxProducts) \cup {ExampleProducts}
    /\ sel_prefs \in {[budget_min |-> b[1], budget_max |-> b[2]] : b \in BudgetPairs}
    /\ top_n \in 0..MaxTopN
    /\ selected = <<>>
    /\ SearchIdle /\ MainIdle /\ ScoreIdle
    /\ CompareIdle /\ PriceIdle /\ RatingIdle
    /\ FormatIdle /\ ParseIdle

NextSelect == Select

SpecSelect == InitSelect /\ [][NextSelect]_vars

\* ------------------------------------------- _calculate_relevance_score

\* Bound of the model: free keywords in a preferences record.
MaxKeywords == 3

\* The numbers of the scorer and of _extract_price.
MusinsaBonus == 25
StylePoints == 2
StyleCap == 10
BrandPoints == 5
BrandCap == 15
BudgetInRange == 20
BudgetNear == 10
KeywordPoints == 3
KeywordCap == 10
MinPrice == 10000
MaxPrice == 10000000

\* STYLE_KEYWORDS, the Korean words romanised
STYLE_KEYWORDS(style) ==
    CASE style = "{mi-ni-meol}" ->
           <<"{mi-ni-meol}", "{mi-ni-meol-li-jeum}", "{sim-peul}", "{kkal-kkeum}",
             "{mo-no-ton}">>
      [] style = "{seu-teu-rit}" ->
           <<"{seu-teu-rit}", "{kae-ju-eol}", "{hip}", "{yu-ni-keu}">>
      [] style = "{kaem-peo-seu}" ->
           <<"{kaem-peo-seu}", "{hak-saeng}", "{pyeon-an}", "{keom-po-teu}">>
      [] style = "{o-pi-seu}" ->
           <<"{o-pi-seu}", "{bi-jeu-ni-seu}", "{jeong-jang}", "{po-meol}">>
      [] style = "{bin-ti-ji}" ->
           <<"{bin-ti-ji}", "{re-teu-ro}", "{yet-nal}">>
      [] style = "{reo-beul-li}" ->
           <<"{reo-beul-li}", "{kyu-teu}", "{yeo-seong-seu-reo-un}">>
      [] OTHER -> <<>>

\* A text is the set of its words and the amounts written in it. A written
\* amount is [amount, grouped]: "150,000{won}" is grouped, "150000{won}" is not.

\* the pairs (a, b) of the vocabulary with a a proper part of the word b
ProperSubstrings ==
    {<<"{mi-ni-meol}", "{mi-ni-meol-li-jeum}">>,
     <<"coat", "raincoat">>,
     <<"musinsa", "musinsa.com">>}

\* `kw in text`
Contains(text, kw) ==
    \E w \in text.words : kw = w \/ <<kw, w>> \in ProperSubstrings

\* what the group of `(\d{1,3}(?:,\d{3})*(?:\.\d+)?)\s*{won}` captures of a written
\* amount, as int(match.replace(",", "")): all of a grouped amount, the last
\* three digits of an ungrouped one
Captured(m) == IF m.grouped THEN m.amount ELSE m.amount % 1000

\* `_extract_price(text).get("price")`: the least accepted amount, or None
_extract_price(text) ==
    LET prices == {p \in {Captured(m) : m \in text.amounts} :
                     MinPrice <= p /\ p <= MaxPrice}
    IN IF prices = {} THEN NoneInt
       ELSE CHOOSE p \in prices : \A q \in prices : p <= q

\* `(product_name + " " + content).lower()`
combined_text(c) ==
    [words |-> {Lower(w) : w \in c.product_name \cup c.content},
     amounts |-> c.amounts]

RECURSIVE CountIn(_, _)
\* the number of items of the list kws, lower-cased, that occur in text
CountIn(kws, text) ==
    IF kws = <<>> THEN 0
    ELSE (IF Contains(text, Lower(Head(kws))) THEN 1 ELSE 0) + CountIn(Tail(kws), text)

RECURSIVE StyleMatches(_, _)
\* the two loops over preferences["style"] and STYLE_KEYWORDS[style]
StyleMatches(styles, text) ==
    IF styles = <<>> THEN 0
    ELSE CountIn(STYLE_KEYWORDS(Head(styles)), text) + StyleMatches(Tail(styles), text)

\* the budget part of the score
BudgetScore(price, prefs) ==
    IF Truthy(price) /\ Truthy(prefs.budget_min) /\ Truthy(prefs.budget_max)
    THEN IF prefs.budget_min <= price /\ price <= prefs.budget_max
         THEN BudgetInRange
         ELSE IF 8 * prefs.budget_min <= 10 * price /\ 10 * price <= 12 * prefs.budget_max
              THEN BudgetNear
              ELSE 0
    ELSE 0

\* a variant of CapKeywordScore: no cap
NoCapKeywordScore(keyword_score) == keyword_score

\* `min(keyword_score, 10)`
CapKeywordScore(keyword_score) == Min(keyword_score, KeywordCap)

_calculate_relevance_score(c, prefs) ==
    LET text == combined_text(c)
        musinsa == IF Contains(text, "musinsa") \/ Contains(text, "{mu-sin-sa}")
                   THEN MusinsaBonus ELSE 0
        style_score == StylePoints * StyleMatches(prefs.style, text)
        brand_score == BrandPoints * CountIn(prefs.brand, text)
        price == _extract_price(text)
        keyword_score == KeywordPoints * CountIn(prefs.keywords, text)
    IN musinsa + Min(style_score, StyleCap) + Min(brand_score, BrandCap)
         + BudgetScore(price, prefs) + CapKeywordScore(keyword_score)

\* the candidates the scorer is given
ScoreCandidates ==
    {[product_name |-> {"{mu-sin-sa}", "Wool", "Coat"},
      content |-> {"{mi-ni-meol-li-jeum}", "{sim-peul}", "{kkal-kkeum}", "{mo-no-ton}",
                   "{kae-ju-eol}", "black", "{na-i-ki}", "{a-reu-ket}", "{a-di-da-seu}",
                   "{keo-beo-nat}"},
      amounts |-> {[amount |-> 150000, grouped |-> TRUE]}],
     [product_name |-> {"raincoat"},
      content |-> {"denim"},
      amounts |-> {}],
     [product_name |-> {"MUSINSA.com", "coat"},
      content |-> {"{mi-ni-meol}", "wool"},
      amounts |-> {[amount |-> 230000, grouped |-> TRUE],
                   [amount |-> 150000, grouped |-> FALSE]}],
     [product_name |-> {"coat"},
      content |-> {"{hip}", "{a-reu-ket}"},
      amounts |-> {[amount |-> 9000, grouped |-> TRUE],
                   [amount |-> 250000, grouped |-> TRUE]}],
     [product_name |-> {"black", "coat"},
      content |-> {"{na-i-ki}", "{kae-ju-eol}"},
      amounts |-> {[amount |-> 85000, grouped |-> TRUE],
                   [amount |-> 150000, grouped |-> TRUE]}],
     [product_name |-> {"wool", "coat"},
      content |-> {"black", "denim"},
      amounts |-> {[amount |-> 200000, grouped |-> TRUE]}]}

\* the style, brand and free-keyword lists of the preferences records
StyleLists ==
    {<<>>, <<"{mi-ni-meol}">>, <<"{mi-ni-meol}", "{seu-teu-rit}", "{kaem-peo-seu}">>}
BrandLists ==
    {<<>>, <<"{na-i-ki}">>,
     <<"{a-reu-ket}", "{na-i-ki}", "{a-di-da-seu}", "{keo-beo-nat}">>}
KeywordPool == {"coat", "Wool", "black", "denim"}

Preferences ==
    {[style |-> s, brand |-> b, keywords |-> k, budget_min |-> p[1], budget_max |-> p[2]] :
       s \in StyleLists, b \in BrandLists,
       k \in SeqsUpTo(KeywordPool, MaxKeywords), p \in BudgetPairs}

\* the scorer is applied to the candidate under the preferences, under the
\* preferences with one more free keyword, and under them with no free keyword
Score ==
    /\ rpc = "input"
    /\ score' = _calculate_relevance_score(cand, score_prefs)
    /\ score_more' = _calculate_relevance_score(
                       cand, [score_prefs EXCEPT !.keywords = Append(@, extra_keyword)])
    /\ score_nokw' = _calculate_relevance_score(
                       cand, [score_prefs EXCEPT !.keywords = <<>>])
    /\ rpc' = "scored"
    /\ UNCHANGED <<cand, score_prefs, extra_keyword>>
    /\ UNCHANGED <<searchVars, mainVars, selectVars, compareVars, priceVars, ratingVars,
                 formatVars, parseVars>>

InitScore ==
    /\ rpc = "input"
    /\ cand \in ScoreCandidates
    /\ score_prefs \in Preferences
    /\ extra_keyword \in KeywordPool
    /\ score = 0 /\ score_more = 0 /\ score_nokw = 0
    /\ SearchIdle /\ MainIdle /\ SelectIdle
    /\ CompareIdle /\ PriceIdle /\ RatingIdle
    /\ FormatIdle /\ ParseIdle

NextScore == Score

SpecScore == InitScore /\ [][NextScore]_vars

\* -------------------------------- calculate_value_score, compare_products

\* Bound of the model: product names in one comparison.
MaxCompared == 3

\* Amounts are in won, a rating is in hundredths of a point (4.25 is 425), a
\* discount rate in tenths of a percent (33.3 is 333), a value score in
\* hundredths of a point.

\* the records the extractors can return for a product: final_price and
\* discount_rate of the PriceInfo, musinsa_rating of the rating record
InfoValues ==
    [final_price : {NoneInt, 5000, 12340, 1200000},
     musinsa_rating : {NoneInt, 0, 500},
     discount_rate : {NoneInt}]
    \cup {[final_price |-> 5000, musinsa_rating |-> 500, discount_rate |-> 600],
          [final_price |-> 5000, musinsa_rating |-> 500, discount_rate |-> 333],
          [final_price |-> NoneInt, musinsa_rating |-> NoneInt, discount_rate |-> 333],
          [final_price |-> 12340, musinsa_rating |-> 0, discount_rate |-> 600]}

Max(a, b) == IF a >= b THEN a ELSE b

\* round(x, 2) of x = n / 20000, in hundredths: the nearest hundredth, the even
\* one of two equally near
RoundHundredths(n) ==
    LET q == n \div 200
        r == n % 200
    IN IF r < 100 THEN q
       ELSE IF r > 100 THEN q + 1
       ELSE IF q % 2 = 0 THEN q ELSE q + 1

\* `max(0, 50 - (price / 10000) * 0.5)` when final_price is truthy, else 25; in
\* 20000ths of a point
PriceScore(info) ==
    IF Truthy(info.final_price) THEN Max(0, 50 * 20000 - info.final_price)
    ELSE 25 * 20000

\* `(rating / 5.0) * 50` when musinsa_rating is truthy, else 25; in 20000ths
RatingScore(info) ==
    IF Truthy(info.musinsa_rating) THEN info.musinsa_rating * 2000
    ELSE 25 * 20000

\* `min(10, discount * 0.2)` when discount_rate is truthy, else nothing; in
\* 20000ths
DiscountBonus(info) ==
    IF Truthy(info.discount_rate) THEN Min(10 * 20000, info.discount_rate * 400)
    ELSE 0

\* calculate_value_score(price_info, rating_info), in hundredths
calculate_value_score(info) ==
    RoundHundredths(PriceScore(info) + RatingScore(info) + DiscountBonus(info))

\* the place of one product in `products_data.sort(key=..., reverse=True)`: after
\* every product already placed whose value score is greater or equal
InsertByValue(sorted, p) ==
    LET n == Cardinality({k \in 1..Len(sorted) : sorted[k].value_score >= p.value_score})
    IN SubSeq(sorted, 1, n) \o <<p>> \o SubSeq(sorted, n + 1, Len(sorted))

RECURSIVE SortByValue(_, _)
\* `products_data.sort(key=lambda x: x["value_score"], reverse=True)`
SortByValue(data, sorted) ==
    IF data = <<>> THEN sorted
    ELSE SortByValue(Tail(data), InsertByValue(sorted, Head(data)))

\* the loop of compare_products over product_names: one record per name
CollectProducts(is) ==
    [i \in 1..Len(is) |->
       [name |-> i, info |-> is[i], value_score |-> calculate_value_score(is[i])]]

\* a variant of Winner: the second product whatever the scores
WinnerIsSecond(data) == 2

\* `winner = product1 if product1["value_score"] > product2["value_score"] else product2`,
\* as a position in products_data
Winner(data) == IF data[1].value_score > data[2].value_score THEN 1 ELSE 2

NoReport == [kind |-> "none", final_recommendation |-> 0]

\* _generate_markdown_table(products_data): the final-recommendation field names
\* the winner
_generate_markdown_table(data) ==
    IF Len(data) < 2 THEN [kind |-> "warning", final_recommendation |-> 0]
    ELSE [kind |-> "table", final_recommendation |-> data[Winner(data)].name]

\* compare_products from the extracted records on: fewer than two names give
\* the warning, else the products are scored, sorted and reported
Compare ==
    /\ cpc = "input"
    /\ IF Len(infos) < 2
       THEN /\ products_data' = <<>>
            /\ report' = [kind |-> "warning", final_recommendation |-> 0]
       ELSE /\ products_data' = SortByValue(CollectProducts(infos), <<>>)
            /\ report' = _generate_markdown_table(products_data')
    /\ cpc' = "compared"
    /\ UNCHANGED infos
    /\ UNCHANGED <<searchVars, mainVars, selectVars, scoreVars, priceVars, ratingVars,
                 formatVars, parseVars>>

InitCompare ==
    /\ cpc = "input"
    /\ infos \in AllSeqs(InfoValues, MaxCompared)
    /\ products_data = <<>>
    /\ report = NoReport
    /\ SearchIdle /\ MainIdle /\ SelectIdle /\ ScoreIdle
    /\ PriceIdle /\ RatingIdle
    /\ FormatIdle /\ ParseIdle

NextCompare == Compare

SpecCompare == InitCompare /\ [][NextCompare]_vars

\* ---------------------------------------------------- extract_price_info

\* Bound of the model: results passed to an extractor.
MaxMentions == 3

\* The numbers of extract_price_info.
PriceFloor == 5000
PriceCeiling == 5000000
MinDiscount == 1
MaxDiscount == 99
MaxShipping == 50000

\* The content of a result is one mention inside neutral text longer than the
\* 30 characters of context that extract_price_info reads around an amount, so
\* that no mention is in the context of another. A mention is [form, amount,
\* grouped]; with N the amount written with thousands separators (grouped) or
\* without, the forms are
\*   "anchored"          {pan-mae-ga} N{won}      (sales price N won)
\*   "list_prefix"       {jeong-ga} N{won}        (list price N won)
\*   "list_suffix"       N{won} {jeong-ga}
\*   "tagged"            {ga-gyeok}{eun} N{won}   (the price is N won)
\*   "bare"              N{won}
\*   "won_sign"          (won sign)N
\*   "no_unit"           N
\*   "discount"          N% {hal-in}
\*   "shipping_fee"      {bae-song-bi} N{won}
\*   "free_shipping"     {mu-ryo-bae-song}
\*   "cash_on_delivery"  {chak-bul}
Mention(form, amount) == [form |-> form, amount |-> amount, grouped |-> TRUE]

PriceMentions ==
    {Mention("anchored", 80000), Mention("list_prefix", 120000),
     Mention("list_suffix", 10000),
     Mention("tagged", 80000), Mention("tagged", 50000),
     Mention("bare", 50000), Mention("bare", 60000), Mention("bare", 80000),
     Mention("bare", 4000), Mention("won_sign", 80000),
     [form |-> "bare", amount |-> 50000, grouped |-> FALSE],
     Mention("no_unit", 50000),
     Mention("discount", 30), Mention("discount", 100),
     Mention("shipping_fee", 3000),
     Mention("free_shipping", 0), Mention("cash_on_delivery", 0)}

\* the results: every mention on a page outside the marketplace, three of them on
\* a marketplace page as well
PriceResults ==
    {[musinsa |-> FALSE, mention |-> m] : m \in PriceMentions}
    \cup {[musinsa |-> TRUE, mention |-> m] :
            m \in {Mention("anchored", 80000), Mention("bare", 60000),
                   Mention("free_shipping", 0)}}

RECURSIVE MentionsOf(_, _)
\* the mentions of the results that are (musinsa = TRUE) or are not marketplace
\* results, in order: musinsa_text or general_text
MentionsOf(results, musinsa) ==
    IF results = <<>> THEN <<>>
    ELSE (IF Head(results).musinsa = musinsa THEN <<Head(results).mention>> ELSE <<>>)
           \o MentionsOf(Tail(results), musinsa)

\* `combined_text = musinsa_text if musinsa_text else general_text`
price_combined_text(results) ==
    IF \E i \in 1..Len(results) : results[i].musinsa
    THEN MentionsOf(results, TRUE)
    ELSE MentionsOf(results, FALSE)

\* the digit group `\d{1,3}(?:,\d{3})*` covers the whole written number
WrittenWhole(m) == m.grouped \/ m.amount < 1000

\* `5000 <= price <= 5000000`
InPriceRange(p) == PriceFloor <= p /\ p <= PriceCeiling

\* the least / greatest element of a non-empty set of numbers
MinOf(S) == CHOOSE p \in S : \A q \in S : p <= q
MaxOf(S) == CHOOSE p \in S : \A q \in S : p >= q

\* step 1: the amounts the price_keywords patterns find (a keyword, then the
\* amount), within the range
context_prices(text) ==
    {text[i].amount : i \in {k \in 1..Len(text) :
        /\ text[k].form \in {"anchored", "list_prefix"}
        /\ WrittenWhole(text[k])
        /\ InPriceRange(text[k].amount)}}

\* a variant of HasUnit: a number without a unit is matched too
HasUnitOrNone(m) == m.form \in {"anchored", "list_prefix", "list_suffix", "tagged", "bare",
                                "shipping_fee", "won_sign", "no_unit"}

\* the price_patterns of step 2 match the mention: N{won}, or the won sign and N
HasUnit(m) == m.form \in {"anchored", "list_prefix", "list_suffix", "tagged", "bare",
                          "shipping_fee", "won_sign"}

\* what the group of a price pattern captures of the mention
CapturedPrice(m) ==
    IF m.form = "won_sign" THEN (IF WrittenWhole(m) THEN m.amount ELSE 0)
    ELSE Captured(m)

\* an exclude keyword is within 20 characters of the amount
NearExcludeKeyword(m) == m.form = "shipping_fee"

\* has_price_keyword: a price keyword is in the context of the amount
has_price_keyword(m) == m.form \in {"anchored", "list_prefix", "list_suffix", "tagged"}

\* the positions of the mentions that enter all_price_candidates
CandidatePositions(text) ==
    {i \in 1..Len(text) :
       /\ HasUnit(text[i])
       /\ InPriceRange(CapturedPrice(text[i]))
       /\ ~NearExcludeKeyword(text[i])}

RECURSIVE InPositionOrder(_, _)
\* the positions of P in increasing order, from position i on
InPositionOrder(P, i) ==
    IF P = {} THEN <<>>
    ELSE IF i \in P THEN <<i>> \o InPositionOrder(P \ {i}, i + 1)
    ELSE InPositionOrder(P, i + 1)

\* all_price_candidates after `sort(key=lambda x: (not x[1], x[2]))`: the
\* candidates with a price keyword first, then by position; each is
\* (price, has_price_keyword, position)
all_price_candidates(text) ==
    LET P == CandidatePositions(text)
        tagged == {i \in P : has_price_keyword(text[i])}
        order == InPositionOrder(tagged, 1) \o InPositionOrder(P \ tagged, 1)
    IN [k \in 1..Len(order) |->
          <<CapturedPrice(text[order[k]]), has_price_keyword(text[order[k]]), order[k]>>]

\* `sorted(set(prices))`
SortedSet(S) ==
    LET n == Cardinality(S)
    IN [k \in 1..n |-> CHOOSE p \in S : Cardinality({q \in S : q < p}) = k - 1]

\* a variant of PickUntagged: the lowest value
PickLowest(sorted_prices) == sorted_prices[1]

\* the choice among candidates without a price keyword: the second-lowest value
\* when there are two or more, else the only one
PickUntagged(sorted_prices) ==
    IF Len(sorted_prices) >= 2
    THEN (IF sorted_prices[2] >= PriceFloor THEN sorted_prices[2] ELSE sorted_prices[1])
    ELSE sorted_prices[1]

\* the current price chosen from the context prices or the candidates
ChooseCurrentPrice(text) ==
    LET context == context_prices(text)
        candidates == all_price_candidates(text)
        keyword_prices == {candidates[k][1] : k \in {j \in 1..Len(candidates) : candidates[j][2]}}
        sorted_prices == SortedSet({candidates[k][1] : k \in 1..Len(candidates)})
    IN IF context # {} THEN MinOf(context)
       ELSE IF candidates = <<>> THEN NoneInt
       ELSE IF keyword_prices # {} THEN MinOf(keyword_prices)
       ELSE PickUntagged(sorted_prices)

\* the amounts the original_price_patterns find, within the range
original_prices(text) ==
    {CapturedPrice(text[i]) : i \in {k \in 1..Len(text) :
        /\ \/ text[k].form = "list_prefix" /\ WrittenWhole(text[k])
           \/ text[k].form = "list_suffix"
        /\ InPriceRange(CapturedPrice(text[k]))}}

\* the rates the discount_patterns find, between 1 and 99
discount_rates(text) ==
    {text[i].amount : i \in {k \in 1..Len(text) :
        /\ text[k].form = "discount"
        /\ MinDiscount <= text[k].amount /\ text[k].amount <= MaxDiscount}}

\* current / (1 - rate/100) rounded to the nearest integer
RoundedOriginal(current, rate) ==
    (2 * current * 100 + (100 - rate)) \div (2 * (100 - rate))

\* `int(current_price / (1 - discount_rate / 100))`: the quotient cut to an integer
DerivedOriginal(current, rate) == (current * 100) \div (100 - rate)

\* `round((1 - current / original) * 100, 1)`, in tenths of a percent
DerivedDiscount(current, original) ==
    (2 * 1000 * (original - current) + original) \div (2 * original)

\* the reconciliation of lines 315-323: the list price from the rate, or else
\* the rate from the two prices
Reconcile(info) ==
    IF Truthy(info.current_price) /\ Truthy(info.discount_rate) /\ ~Truthy(info.original_price)
    THEN [info EXCEPT !.original_price = DerivedOriginal(info.current_price, info.discount_rate \div 10)]
    ELSE IF /\ Truthy(info.original_price) /\ Truthy(info.current_price)
            /\ info.original_price > info.current_price
    THEN [info EXCEPT !.discount_rate = DerivedDiscount(info.current_price, info.original_price)]
    ELSE info

\* the shipping cost: 0 for free shipping, else cash on delivery, else the first
\* shipping fee the pattern finds if it is at most 50,000
ShippingCost(text) ==
    LET fees == {i \in 1..Len(text) : text[i].form = "shipping_fee" /\ WrittenWhole(text[i])}
    IN IF \E i \in 1..Len(text) : text[i].form = "free_shipping" THEN 0
       ELSE IF \E i \in 1..Len(text) : text[i].form = "cash_on_delivery" THEN CashOnDelivery
       ELSE IF fees # {} /\ text[MinOf(fees)].amount <= MaxShipping
            THEN text[MinOf(fees)].amount
       ELSE NoneInt

\* extract_price_info(search_results); discount_rate in tenths of a percent
extract_price_info(results) ==
    LET text == price_combined_text(results)
        current == ChooseCurrentPrice(text)
        original == original_prices(text)
        rates == discount_rates(text)
        found == [current_price |-> current,
                  final_price |-> current,
                  original_price |-> IF original # {} THEN MaxOf(original) ELSE NoneInt,
                  discount_rate |-> IF rates # {} THEN 10 * MaxOf(rates) ELSE NoneInt,
                  shipping_cost |-> NoneInt]
    IN [Reconcile(found) EXCEPT !.shipping_cost = ShippingCost(text)]

\* discount_rate of PreferenceBasedRecommendationAgent._extract_price(text): the
\* first `N% {hal-in}` of the text, whatever N; in percent
extract_price_discount_rate(text) ==
    LET found == {i \in 1..Len(text) : text[i].form = "discount"}
    IN IF found = {} THEN NoneInt ELSE text[MinOf(found)].amount

\* one call of extract_price_info, and of _extract_price on the same text
ExtractPrice ==
    /\ xpc = "input"
    /\ price_info' = extract_price_info(search_results)
    /\ simple_discount' = extract_price_discount_rate(price_combined_text(search_results))
    /\ xpc' = "extracted"
    /\ UNCHANGED search_results
    /\ UNCHANGED <<searchVars, mainVars, selectVars, scoreVars, compareVars, ratingVars,
                 formatVars, parseVars>>

InitPrice ==
    /\ xpc = "input"
    /\ search_results \in SeqsUpTo(PriceResults, MaxMentions)
    /\ price_info = EmptyPriceInfo
    /\ simple_discount = NoneInt
    /\ SearchIdle /\ MainIdle /\ SelectIdle /\ ScoreIdle
    /\ CompareIdle /\ RatingIdle
    /\ FormatIdle /\ ParseIdle

NextPrice == ExtractPrice

SpecPrice == InitPrice /\ [][NextPrice]_vars

\* --------------------------------------------------- extract_rating_info

\* The bounds of a rating, in hundredths of a point.
MinRating == 0
MaxRating == 500

\* The content of a result is one mention [form, value] inside neutral text; a
\* rating x is written with one decimal and valued in hundredths of a point. The
\* forms are
\*   "labelled"          {pyeong-jeom}: x/5                (rating: x/5)
\*   "musinsa_labelled"  {mu-sin-sa} {pyeong-jeom}: x/5
\*   "points"            x{jeom}/5                          (x points/5)
\*   "fraction"          x/5
\*   "no_scale"          {pyeong-jeom}: x
\*   "reviews"           {ri-byu} n                         (reviews n)
RatingMention(form, value) == [form |-> form, value |-> value]

RatingMentions ==
    {RatingMention("labelled", 450), RatingMention("labelled", 400),
     RatingMention("labelled", 0), RatingMention("labelled", 700),
     RatingMention("musinsa_labelled", 450), RatingMention("musinsa_labelled", 400),
     RatingMention("points", 450), RatingMention("fraction", 450),
     RatingMention("no_scale", 450),
     RatingMention("reviews", 120), RatingMention("reviews", 35)}

\* the results: every mention on a page outside the marketplace, three of them on
\* a marketplace page as well
RatingResults ==
    {[musinsa |-> FALSE, mention |-> m] : m \in RatingMentions}
    \cup {[musinsa |-> TRUE, mention |-> m] :
            m \in {RatingMention("labelled", 450), RatingMention("labelled", 400),
                   RatingMention("points", 450)}}

\* the result goes to musinsa_text: its url or its content names the marketplace
IsMusinsaRatingResult(r) == r.musinsa \/ r.mention.form = "musinsa_labelled"

RECURSIVE RatingMentionsOf(_, _)
\* musinsa_text (musinsa = TRUE) or general_text, as the mentions in order
RatingMentionsOf(results, musinsa) ==
    IF results = <<>> THEN <<>>
    ELSE (IF IsMusinsaRatingResult(Head(results)) = musinsa
          THEN <<Head(results).mention>> ELSE <<>>)
           \o RatingMentionsOf(Tail(results), musinsa)

\* `combined_text = musinsa_text if musinsa_text else general_text`
rating_combined_text(results) ==
    IF \E i \in 1..Len(results) : IsMusinsaRatingResult(results[i])
    THEN RatingMentionsOf(results, TRUE)
    ELSE RatingMentionsOf(results, FALSE)

\* the values the six musinsa_patterns capture from the mention, one for every
\* pattern that matches it: the first and the fifth pattern both match
\* `{mu-sin-sa} {pyeong-jeom}: x/5`; without `/5` the fifth pattern takes the
\* final 5 of `a.5` as the scale and captures `a.`
PatternMatches(m) ==
    IF m.form \in {"labelled", "points"} THEN <<m.value>>
    ELSE IF m.form = "musinsa_labelled" THEN <<m.value, m.value>>
    ELSE IF m.form = "no_scale" /\ m.value % 100 = 50 THEN <<(m.value \div 100) * 100>>
    ELSE <<>>

RECURSIVE ratings(_)
\* the list `ratings`: the captured values with `0 <= rating <= 5`
ratings(text) ==
    IF text = <<>> THEN <<>>
    ELSE SelectSeq(PatternMatches(Head(text)), LAMBDA v : MinRating <= v /\ v <= MaxRating)
           \o ratings(Tail(text))

RECURSIVE Sum(_)
Sum(s) == IF s = <<>> THEN 0 ELSE Head(s) + Sum(Tail(s))

\* num / den rounded to the nearest integer, a tie to the even one: `round`
RoundHalfEven(num, den) ==
    LET q == num \div den
        r == num % den
    IN IF 2 * r < den THEN q
       ELSE IF 2 * r > den THEN q + 1
       ELSE IF q % 2 = 0 THEN q ELSE q + 1

\* `round(sum(ratings) / len(ratings), 2)`, in hundredths of a point
MeanRating(rs) == RoundHalfEven(Sum(rs), Len(rs))

\* the review counts the review_patterns find
review_counts(text) ==
    {text[i].value : i \in {k \in 1..Len(text) : text[k].form = "reviews"}}

\* extract_rating_info(search_results)
extract_rating_info(results) ==
    LET text == rating_combined_text(results)
        rs == ratings(text)
        mean == IF rs # <<>> THEN MeanRating(rs) ELSE NoneInt
        counts == review_counts(text)
    IN [musinsa_rating |-> mean,
        average_rating |-> mean,
        review_count |-> IF counts # {} THEN MaxOf(counts) ELSE NoneInt]

\* one call of extract_rating_info
ExtractRating ==
    /\ gpc = "input"
    /\ rating_info' = extract_rating_info(rating_results)
    /\ gpc' = "extracted"
    /\ UNCHANGED rating_results
    /\ UNCHANGED <<searchVars, mainVars, selectVars, scoreVars, compareVars, priceVars,
                 formatVars, parseVars>>

InitRating ==
    /\ gpc = "input"
    /\ rating_results \in SeqsUpTo(RatingResults, MaxMentions)
    /\ rating_info = EmptyRatingInfo
    /\ SearchIdle /\ MainIdle /\ SelectIdle /\ ScoreIdle
    /\ CompareIdle /\ PriceIdle
    /\ FormatIdle /\ ParseIdle

NextRating == ExtractRating

SpecRating == InitRating /\ [][NextRating]_vars

\* ------------------------------------------------ format_recommendations

\* Bound of the model: products in the response to format.
MaxFormatted == 3

\* `result.get('score', 50)` and the heuristic score without keywords
DefaultScore == 50
\* `scored_products[:5]`
TopRecommendations == 5

\* the products of the response: title and content as the words they hold
FormatResults ==
    {[title |-> {"Wool", "Coat"}, content |-> {"black"}],
     [title |-> {"raincoat"}, content |-> {"denim"}],
     [title |-> {}, content |-> {}]}

\* the lists of keywords chosen by the user
UserKeywords == SeqsUpTo({"coat", "Wool", "denim"}, MaxKeywords)

\* What one call of the LLM does: it raises (or its answer is no JSON), or it
\* answers with a score, or with a JSON object without a score.
LLMFails == [ok |-> FALSE, score |-> NoneInt]
LLMAnswers == {[ok |-> TRUE, score |-> n] : n \in {NoneInt, 40, 90}}
LLMOutcomes == {LLMFails} \cup LLMAnswers

\* `title + ' ' + content`, lower-cased
product_text(product_info) ==
    [words |-> {Lower(w) : w \in product_info.title \cup product_info.content}]

\* a variant of calculate_keyword_match_score: no match counts
NoKeywordMatches(product_info, kws) == 0

\* calculate_keyword_match_score(product_info, user_keywords)
calculate_keyword_match_score(product_info, kws) ==
    IF kws # <<>>
    THEN (CountIn(kws, product_text(product_info)) * 100) \div Len(kws)
    ELSE DefaultScore

\* calculate_relevance_score(product_info, user_keywords, openai_client), given
\* what the LLM call does: (score, reason)
calculate_relevance_score(product_info, kws, llm) ==
    IF llm.ok
    THEN [score |-> IF llm.score = NoneInt THEN DefaultScore ELSE llm.score,
          reason |-> "llm"]
    ELSE [score |-> calculate_keyword_match_score(product_info, kws),
          reason |-> "keyword_matching"]

RECURSIVE InsertByRelevance(_, _)
\* p after the last item of the sorted list whose score is not lower: the
\* stable `sort(key=lambda x: x['score'], reverse=True)`
InsertByRelevance(sorted, p) ==
    IF sorted = <<>> THEN <<p>>
    ELSE IF Head(sorted).score >= p.score
    THEN <<Head(sorted)>> \o InsertByRelevance(Tail(sorted), p)
    ELSE <<p>> \o sorted

RECURSIVE SortByRelevance(_, _)
SortByRelevance(list, sorted) ==
    IF list = <<>> THEN sorted
    ELSE SortByRelevance(Tail(list), InsertByRelevance(sorted, Head(list)))

\* the five best of the sorted list, each with its rank
Ranked(list) ==
    LET sorted == SortByRelevance(list, <<>>)
    IN [k \in 1..Min(TopRecommendations, Len(sorted)) |->
          [idx |-> sorted[k].idx, score |-> sorted[k].score, reason |-> sorted[k].reason,
           rank |-> k]]

\* one iteration of the loop over response['results']: the product is scored,
\* whatever the LLM call does
ScoreProduct ==
    /\ fpc = "scoring"
    /\ Len(scored_products) < Len(response)
    /\ \E llm \in LLMOutcomes :
         LET idx == Len(scored_products) + 1
             rel == calculate_relevance_score(response[idx], user_keywords, llm)
         IN /\ answers' = Append(answers, llm)
            /\ scored_products' = Append(scored_products,
                                         [idx |-> idx, score |-> rel.score, reason |-> rel.reason])
    /\ UNCHANGED <<fpc, response, user_keywords, recommendations>>
    /\ UNCHANGED <<searchVars, mainVars, selectVars, scoreVars, compareVars, priceVars,
                   ratingVars, parseVars>>

\* after the loop: the sort, the ranks and the return
ReturnRecommendations ==
    /\ fpc = "scoring"
    /\ Len(scored_products) = Len(response)
    /\ recommendations' = Ranked(scored_products)
    /\ fpc' = "formatted"
    /\ UNCHANGED <<response, user_keywords, answers, scored_products>>
    /\ UNCHANGED <<searchVars, mainVars, selectVars, scoreVars, compareVars, priceVars,
                   ratingVars, parseVars>>

InitFormat ==
    /\ fpc = "scoring"
    /\ response \in AllSeqs(FormatResults, MaxFormatted)
    /\ user_keywords \in UserKeywords
    /\ answers = <<>>
    /\ scored_products = <<>>
    /\ recommendations = <<>>
    /\ SearchIdle /\ MainIdle /\ SelectIdle /\ ScoreIdle
    /\ CompareIdle /\ PriceIdle /\ RatingIdle /\ ParseIdle

NextFormat == ScoreProduct \/ ReturnRecommendations

SpecFormat == InitFormat /\ [][NextFormat]_vars

\* --------------------------------------------- parse_preference_keywords

\* Bound of the model: comma-separated items of the text typed by the user.
MaxItems == 2

\* `budget_min = budget * 10000`: {man-won} is 10,000 won
TenThousand == 10000
\* `(budget + 9) * 10000`
DecadeSpan == 9

\* The text is its comma-separated items. An item is a word, or a budget
\* phrase with the numbers a and b written in it:
\*   "decade"    a{man-won-dae}            (in the a x 10,000 won range)
\*   "amount"    a{man-won}
\*   "spaced"    a {man} {won}
\*   "labelled"  {ye-san}: a{man-won}      (budget: ...)
\*   "range"     a~b{man-won}
Item(form, a, b, word) == [form |-> form, a |-> a, b |-> b, word |-> word]

BudgetNumbers == {5, 30, 100}

PreferenceItems ==
    {Item(f, n, 0, "") : f \in {"decade", "amount", "spaced", "labelled"}, n \in BudgetNumbers}
    \cup {Item("range", 20, 30, ""), Item("range", 2, 3, ""), Item("range", 5, 10, "")}
    \cup {Item("word", 0, 0, w) : w \in {"{mi-ni-meol-li-jeum}", "{na-i-ki}", "coat", "x"}}

\* the dict order of STYLE_KEYWORDS
StyleNames ==
    <<"{mi-ni-meol}", "{seu-teu-rit}", "{kaem-peo-seu}", "{o-pi-seu}", "{bin-ti-ji}",
      "{reo-beul-li}">>

brand_keywords ==
    <<"{a-reu-ket}", "{a-keu-ne}", "{na-i-ki}", "{a-di-da-seu}", "{mu-sin-sa}", "{ku-ron}",
      "{seu-ton-a-il-laen-deu}", "{keo-beo-nat}", "{di-seu-i-jeu-ne-beo-daet}",
      "{no-seu-pe-i-seu}", "{pae-teu-a-geu}", "{a-deo-e-reo}">>

\* the words of the text
InputText(input) ==
    [words |-> {input[i].word : i \in {k \in 1..Len(input) : input[k].form = "word"}}]

NoMatch == [hit |-> FALSE, pair |-> FALSE, a |-> 0, b |-> 0]
Single(n) == [hit |-> TRUE, pair |-> FALSE, a |-> n, b |-> 0]
Pair(m, n) == [hit |-> TRUE, pair |-> TRUE, a |-> m, b |-> n]

\* the sixth pattern, `(\d+)\s*~?\s*(\d+)\s*{man-won}`: the two numbers of a
\* range; as `~` is optional, also a number of two or more digits directly
\* before {man-won}, split before its last digit
TwoNumbers(it) ==
    IF it.form = "range" THEN Pair(it.a, it.b)
    ELSE IF it.form \in {"decade", "amount", "labelled"} /\ it.a >= 10
    THEN Pair(it.a \div 10, it.a % 10)
    ELSE NoMatch

\* the first match of the k-th of the budget_patterns in an item
PatternMatch(k, it) ==
    CASE k \in {1, 2} -> IF it.form = "decade" THEN Single(it.a) ELSE NoMatch
      [] k = 3 -> IF it.form \in {"decade", "amount", "labelled"} THEN Single(it.a)
                  ELSE IF it.form = "range" THEN Single(it.b)
                  ELSE NoMatch
      [] k = 4 -> IF it.form \in {"decade", "amount", "labelled", "spaced"} THEN Single(it.a)
                  ELSE IF it.form = "range" THEN Single(it.b)
                  ELSE NoMatch
      [] k = 5 -> IF it.form = "labelled" THEN Single(it.a) ELSE NoMatch
      [] OTHER -> TwoNumbers(it)

\* `matches[0]` of re.findall(pattern, preference_input)
FirstMatch(k, input) ==
    LET hits == {i \in 1..Len(input) : PatternMatch(k, input[i]).hit}
    IN IF hits = {} THEN NoMatch ELSE PatternMatch(k, input[MinOf(hits)])

NumBudgetPatterns == 6

RECURSIVE ApplyBudgetPatterns(_, _, _)
\* `for pattern in budget_patterns`: every pattern that matches sets the budget
ApplyBudgetPatterns(k, input, prefs) ==
    IF k > NumBudgetPatterns THEN prefs
    ELSE LET m == FirstMatch(k, input)
             next == IF ~m.hit THEN prefs
                     ELSE IF m.pair
                     THEN [prefs EXCEPT !.budget = [kind |-> "range", a |-> m.a, b |-> m.b],
                                        !.budget_min = m.a * TenThousand,
                                        !.budget_max = m.b * TenThousand]
                     ELSE [prefs EXCEPT !.budget = [kind |-> "decade", a |-> m.a, b |-> 0],
                                        !.budget_min = m.a * TenThousand,
                                        !.budget_max = (m.a + DecadeSpan) * TenThousand]
         IN ApplyBudgetPatterns(k + 1, input, next)

\* the text of an item has more than one character
LongerThanOne(it) == it.form # "word" \/ it.word # "x"

\* parse_preference_keywords(preference_input)
parse_preference_keywords(input) ==
    LET text == InputText(input)
        start == [style |-> SelectSeq(StyleNames,
                              LAMBDA s : \E k \in 1..Len(STYLE_KEYWORDS(s)) :
                                            Contains(text, STYLE_KEYWORDS(s)[k])),
                  budget |-> [kind |-> "None", a |-> 0, b |-> 0],
                  budget_min |-> NoneInt,
                  budget_max |-> NoneInt,
                  brand |-> SelectSeq(brand_keywords, LAMBDA br : Contains(text, br)),
                  keywords |-> SelectSeq(input, LongerThanOne)]
    IN ApplyBudgetPatterns(1, input, start)

\* one call of parse_preference_keywords
Parse ==
    /\ ppc = "input"
    /\ preferences' = parse_preference_keywords(preference_input)
    /\ ppc' = "parsed"
    /\ UNCHANGED preference_input
    /\ UNCHANGED <<searchVars, mainVars, selectVars, scoreVars, compareVars, priceVars,
                   ratingVars, formatVars>>

InitParse ==
    /\ ppc = "input"
    /\ preference_input \in AllSeqs(PreferenceItems, MaxItems)
    /\ preferences = [budget_min |-> NoneInt, budget_max |-> NoneInt]
    /\ SearchIdle /\ MainIdle /\ SelectIdle /\ ScoreIdle
    /\ CompareIdle /\ PriceIdle /\ RatingIdle /\ FormatIdle

NextParse == Parse

SpecParse == InitParse /\ [][NextParse]_vars

\* ------------------------------------------------------------ claims, Spec

\* the items of a bucket are in the order they were received
InReceiptOrder(list) == \A i, j \in 1..Len(list) : i < j => list[i].rcv < list[j].rcv

InPreferred(x) == x \in Range(musinsa_results)

\* C1: in the list returned by search_product_info and search_similar_products
\* every preferred-bucket item precedes every general-bucket item, and inside a
\* bucket the items keep the order in which the search collaborator returned them
\* (query order, then result order); the buckets themselves are always in
\* receipt order, and search_product_info returns all of both.
C1_StablePartition ==
    /\ InReceiptOrder(musinsa_results)
    /\ InReceiptOrder(all_results)
    /\ (pc = "done" /\ op \in {"spi", "ssp"}) =>
         LET res == returned.results
         IN /\ returned.kind = "list"
            /\ Range(res) \subseteq Range(musinsa_results) \cup Range(all_results)
            /\ op = "spi" => Len(res) = Len(musinsa_results) + Len(all_results)
            /\ \A i, j \in 1..Len(res) :
                 i < j => /\ InPreferred(res[j]) => InPreferred(res[i])
                          /\ (InPreferred(res[i]) = InPreferred(res[j]))
                                => res[i].rcv < res[j].rcv

\* C1 witness: search_product_info returned, with a general item that was
\* received before one of two preferred items.
C1_Witness ==
    /\ pc = "done" /\ op = "spi"
    /\ Len(musinsa_results) >= 2 /\ Len(all_results) >= 1
    /\ \E g \in Range(all_results), m \in Range(musinsa_results) : g.rcv < m.rcv

\* the calls of a step
NewCalls == SubSeq(calls', Len(calls) + 1, Len(calls'))

C2_Returned ==
    /\ pc # "raised"
    /\ pc = "done" =>
         /\ returned.kind \in {"list", "None"}
         /\ Range(returned.results) \subseteq Range(musinsa_results) \cup Range(all_results)
         /\ op \in {"spi", "cr"} =>
              Len(returned.results) = Len(musinsa_results) + Len(all_results)
         /\ \A i \in 1..Len(calls) :
              ~calls[i].ok =>
                \A q \in (calls[i].q + 1)..NumQueries(op, calls[i].phase) :
                  \E j \in (i + 1)..Len(calls) :
                    calls[j].phase = calls[i].phase /\ calls[j].q = q

C2_Step ==
    /\ IsPrefix(musinsa_results, musinsa_results')
    /\ IsPrefix(all_results, all_results')
    /\ (NewCalls # <<>> /\ \A c \in Range(NewCalls) : ~c.ok) =>
         /\ musinsa_results' = musinsa_results
         /\ all_results' = all_results
         /\ pc' \in {"primary", "fallback", "done"}

\* C2: in each of the four search loops a search call that raises leaves the
\* results accumulated so far as they are, the loop goes on to issue every
\* remaining query, and the operation returns its (partial) results instead of
\* raising.
C2_FailureIsolated == [](C2_Returned) /\ [][C2_Step]_vars

\* C2 witness: an operation returned results although a call made after the
\* first results had come in failed, and a later call succeeded.
C2_Witness ==
    /\ pc = "done"
    /\ returned.kind = "list" /\ returned.results # <<>>
    /\ \E i, j, k \in 1..Len(calls) :
         i < j /\ j < k /\ calls[i].ok /\ ~calls[j].ok /\ calls[k].ok
         /\ calls[j].q > calls[i].q

SameQuery(c, d) == c.phase = d.phase /\ c.q = d.q

\* C3 as claimed: no query is sent to the search collaborator twice.
C3_NeverResent ==
    \A i, j \in 1..Len(calls) : i < j => ~SameQuery(calls[i], calls[j])

\* C3 as amended: search_product_info, search_similar_products and
\* collect_reviews send each query once; search_products_with_tavily sends a
\* query a second time only directly after its first call (with the domain
\* filter) failed, then without the domain filter, and never a third time.
C3_OnlyInteractiveRetriesOnce ==
    \A i, j \in 1..Len(calls) :
      (i < j /\ SameQuery(calls[i], calls[j])) =>
        /\ op = "spt"
        /\ j = i + 1
        /\ ~calls[i].ok /\ calls[i].domains
        /\ ~calls[j].domains

\* C3 witness: search_products_with_tavily sent a query again after a failure,
\* and went on after the second call failed too.
C3_Witness ==
    /\ op = "spt" /\ pc = "done"
    /\ \E i \in 1..Len(calls) :
         /\ i + 1 <= Len(calls)
         /\ SameQuery(calls[i], calls[i + 1])
         /\ ~calls[i].ok /\ ~calls[i + 1].ok
         /\ calls[i].q < NumPrimary


\* the calls made in a phase
CallsOf(phase) == {i \in 1..Len(calls) : calls[i].phase = phase}

C21_Order ==
    \A j \in CallsOf("fallback") :
       /\ HasFallback(op)
       /\ Len(musinsa_results) < 3
       /\ \A q \in 1..NumPrimary : \E i \in 1..(j - 1) : calls[i].phase = "primary" /\ calls[i].q = q
       /\ \A i \in CallsOf("primary") : i < j

C21_Step == pc = "fallback" => musinsa_results' = musinsa_results

\* C21: fallback queries are issued only after every primary query has been
\* issued and only if fewer than 3 preferred items were collected (with 3 or
\* more no fallback call is made), and a fallback query adds nothing to the
\* preferred bucket.
C21_FallbackAfterPrimary == [](C21_Order) /\ [][C21_Step]_vars

\* C21 witness: every primary call of search_similar_products failed, a
\* fallback call succeeded and the general bucket holds what it returned.
C21_Witness ==
    /\ pc = "done" /\ op = "ssp"
    /\ \A i \in CallsOf("primary") : ~calls[i].ok
    /\ \E j \in CallsOf("fallback") : calls[j].ok
    /\ musinsa_results = <<>>
    /\ all_results # <<>>

\* C21 witness of the other case: three preferred items were collected and the
\* operation returned without a fallback call.
C21_NoFallbackNeeded ==
    /\ pc = "done" /\ op = "spi"
    /\ Len(musinsa_results) >= 3
    /\ CallsOf("fallback") = {}

\* C22: the list returned by search_similar_products has no two products with
\* the same name, and for each name the product kept is the first with that
\* name in the order `all preferred items, then all general items`.
C22_FirstOfEachName ==
    (pc = "done" /\ op = "ssp") =>
        LET res == returned.results
            combined == musinsa_results \o all_results
        IN /\ \A i, j \in 1..Len(res) :
                i # j => ProductName(res[i].r) # ProductName(res[j].r)
           /\ \A i \in 1..Len(res) :
                \E k \in 1..Len(combined) :
                   /\ combined[k] = res[i]
                   /\ \A h \in 1..(k - 1) :
                        ProductName(combined[h].r) # ProductName(res[i].r)
           /\ \A k \in 1..Len(combined) :
                \E i \in 1..Len(res) : ProductName(res[i].r) = ProductName(combined[k].r)

\* C22 witness: a general product was received before a preferred product of
\* the same name, and the list returned holds the preferred one only.
C22_Witness ==
    /\ pc = "done" /\ op = "ssp"
    /\ \E m \in Range(musinsa_results), g \in Range(all_results) :
         /\ ProductName(m.r) = ProductName(g.r)
         /\ g.rcv < m.rcv
         /\ m \in Range(returned.results)
         /\ g \notin Range(returned.results)

\* C23: the list returned by search_product_info holds no two results with the
\* same URL, also when several queries return the same result.
C23_NoUrlTwice ==
    (pc = "done" /\ op = "spi") =>
        \A i, j \in 1..Len(returned.results) :
           i # j => returned.results[i].r.url # returned.results[j].r.url

\* C23, the failing case: two queries of search_product_info returned the same
\* result, and the list returned holds it twice.
C23_SameResultReturnedTwice ==
    /\ pc = "done" /\ op = "spi"
    /\ \E i, j \in 1..Len(returned.results) :
         /\ i < j
         /\ returned.results[i].r = R1
         /\ returned.results[j].r = R1

\* the request collected nothing: every call failed, or no result was usable
NothingCollected == musinsa_results = <<>> /\ all_results = <<>>

C24_State ==
    /\ pc # "raised"
    /\ (op \in {"ssp", "cr", "spt"} /\ outcome # NoOutcome /\ NothingCollected) =>
          /\ outcome.what = "no_results"
          /\ ~outcome.ran

C24_Step ==
    (op \in {"ssp", "cr", "spt"} /\ pc = "done" /\ NothingCollected /\ outcome = NoOutcome) =>
        outcome' = [what |-> "no_results", ran |-> FALSE]

\* C24: when every search call of a request fails or returns no usable result,
\* recommend_products and summarize_reviews return their warning without
\* running selection / analysis, the interactive recommendation prints its
\* no-results message without calling the scorer, and nothing is raised.
C24_NoResultsMessage == [](C24_State) /\ [][C24_Step]_vars

\* C24 witness: the calls of a request returned results, none of them usable,
\* and the caller gave the no-results message.
C24_Witness ==
    /\ op = "cr"
    /\ \E i \in 1..Len(calls) : ~calls[i].ok
    /\ \E i \in 1..Len(calls) : calls[i].ok
    /\ rcvd > 0
    /\ NothingCollected
    /\ outcome = [what |-> "no_results", ran |-> FALSE]

RECURSIVE ReceivedFrom(_)
\* the results received from the calls, in the order they were received
ReceivedFrom(cs) ==
    IF cs = <<>> THEN <<>>
    ELSE (IF Head(cs).ok THEN Head(cs).got ELSE <<>>) \o ReceivedFrom(Tail(cs))

Received == ReceivedFrom(calls)

\* a result collect_reviews may use: on the marketplace's domain, with a content
IsReview(r) == UrlHasMusinsaCom(Lower(r.url)) /\ r.content # ""

\* C27: collect_reviews returns only contents of results whose URL contains
\* `musinsa.com`, never an empty content, at most one per lower-cased URL, the
\* first one seen, and in the order in which they were first seen.
C27_FirstReviewPerUrl ==
    (pc = "done" /\ op = "cr") =>
        LET res == returned.results
        IN /\ returned.kind = "list"
           /\ \A i \in 1..Len(res) :
                /\ res[i].rcv \in 1..Len(Received)
                /\ Received[res[i].rcv] = res[i].r
                /\ IsReview(res[i].r)
                /\ \A k \in 1..(res[i].rcv - 1) :
                     ~(IsReview(Received[k]) /\ Lower(Received[k].url) = Lower(res[i].r.url))
           /\ \A i, j \in 1..Len(res) :
                i < j => /\ res[i].rcv < res[j].rcv
                         /\ Lower(res[i].r.url) # Lower(res[j].r.url)

\* C27 witness: a result with an empty content and then two results with a
\* content were received for one lower-cased URL, written differently; the
\* content returned is that of the first of the two.
C27_Witness ==
    /\ pc = "done" /\ op = "cr"
    /\ Len(Received) >= 3
    /\ Received[1] = R4 /\ Received[2] = R5
    /\ \E k \in 3..Len(Received) : Received[k] = R1
    /\ Len(returned.results) = 1
    /\ returned.results[1] = [rcv |-> 2, r |-> R5]

\* the test that classifies a result as preferred in the first loop
IsPreferred(r) == IF op = "ssp" THEN IsMusinsaProduct(r) ELSE IsMusinsaResult(r)

\* C30: after any sequence of primary and fallback responses every item of
\* the preferred bucket satisfies the marketplace test of its operation
\* (marker in URL or content, or in the product name for
\* search_similar_products) and no item of the general bucket does.
C30_BucketsMatchPredicate ==
    op \in {"spi", "ssp"} =>
        /\ \A x \in Range(musinsa_results) : IsPreferred(x.r)
        /\ \A x \in Range(all_results) : ~IsPreferred(x.r)

\* C30, what the code keeps: the preferred bucket holds preferred items only,
\* and no item of the general bucket has the marker in its URL or content.
C30_GeneralWithoutUrlOrContentMarker ==
    op \in {"spi", "ssp"} =>
        /\ \A x \in Range(musinsa_results) : IsPreferred(x.r)
        /\ \A x \in Range(all_results) :
             ~UrlHasMusinsa(Lower(x.r.url)) /\ ~ContentHasMusinsa(x.r.content)
        /\ op = "spi" => \A x \in Range(all_results) : ~IsPreferred(x.r)

\* C30, the failing case: every primary call of search_similar_products
\* failed and a fallback call returned a product with the marketplace's name in
\* its product name only; it is in the general bucket.
C30_NamedProductInGeneral ==
    /\ op = "ssp"
    /\ \A i \in CallsOf("primary") : ~calls[i].ok
    /\ \E x \in Range(all_results) :
         /\ x.r = R2
         /\ NameHasMusinsa(ProductName(x.r))
         /\ IsMusinsaProduct(x.r)

\* -------------------------------------------------------- claims, SpecMain

\* check_api_key() has returned: the menu loop runs (or ran)
SessionBegan == mpc # "start" /\ last_event.what # "blank_tavily_key"

UserExits == {"exit_choice", "declined", "keyboard_interrupt"}

\* C4 as claimed: the session ends only through the exit choice, a
\* non-affirmative answer to the continue prompt, or a keyboard interrupt.
C4_OnlyUserExits ==
    (mpc = "exited" /\ SessionBegan) => exit_reason \in UserExits

\* C4 as amended: an Exception raised while a menu choice is served (by
\* input() at the menu, by a feature, by a prompt) brings the loop back to the
\* menu; the session ends only through the exit choice, a non-affirmative
\* answer to the continue prompt, a keyboard interrupt, or the sys.exit(0) of
\* check_openai_api_key when the LLM-key prompt of menu choice 4 is left blank.
C4_ExceptionsKeepSession ==
    /\ last_event.exc = "Exception" => mpc = "menu" /\ exit_reason = ""
    /\ (mpc = "exited" /\ SessionBegan) =>
         \/ exit_reason \in UserExits
         \/ /\ exit_reason = "sys_exit"
            /\ last_event.what = "blank_openai_key"
            /\ choice = 4

\* C4 witness: a feature raised an Exception in the second round and the loop
\* is back at the menu.
C4_Witness ==
    /\ last_event = [what |-> "feature_raised", exc |-> "Exception"]
    /\ mpc = "menu"
    /\ Len(session_log) >= 2
    /\ choice \in 1..3

\* C5 as claimed: leaving the LLM-key prompt blank abandons only the feature
\* and the loop goes on to the next command.
C5_BlankKeyKeepsSession ==
    last_event.what = "blank_openai_key" => mpc = "menu"

\* C5 as amended: when menu choice 4 is chosen, no LLM key is available and the
\* key prompt is left blank, check_openai_api_key calls sys.exit(0), which no
\* handler of main() catches: the feature is not run and the process ends.
C5_BlankKeyExitsProcess ==
    last_event.what = "blank_openai_key" =>
      /\ mpc = "exited"
      /\ exit_reason = "sys_exit"
      /\ choice = 4
      /\ TASTE_RECOMMENDATION_AVAILABLE
      /\ ~env_openai_key

\* C5 witness: the key prompt was left blank in a later round of a session.
C5_Witness ==
    /\ last_event.what = "blank_openai_key"
    /\ Len(session_log) >= 2
    /\ session_log[1] \in 1..3


\* ------------------------------------------------------ claims, SpecSelect

ScoreOf(i) == products[i].relevance_score

\* a budget range is defined: both ends are set (0 is a value)
BudgetDefined == sel_prefs.budget_min # NoneInt /\ sel_prefs.budget_max # NoneInt

\* the code applies the budget filter: both ends are set and not 0
BudgetApplied == Truthy(sel_prefs.budget_min) /\ Truthy(sel_prefs.budget_max)

UnknownPrice(i) == products[i].price = NoneInt

\* the price is within [0.7 * budget_min, 1.3 * budget_max]
WithinBudget(i) ==
    /\ 7 * sel_prefs.budget_min <= 10 * products[i].price
    /\ 10 * products[i].price <= 13 * sel_prefs.budget_max

Qualifying == {i \in 1..Len(products) : UnknownPrice(i) \/ WithinBudget(i)}

\* i comes before k in the stable descending order
RanksBefore(i, k) == ScoreOf(i) > ScoreOf(k) \/ (ScoreOf(i) = ScoreOf(k) /\ i < k)

\* C6 as claimed: select_top_products returns exactly min(top_n, number of
\* candidates passed in) items.
C6_ReturnsMinOfAll ==
    spc = "selected" => Len(selected) = Min(top_n, Len(products))

\* the number of candidates the budget filter is to keep: those with an
\* unknown price or a price within the range, or all when there is none
Kept == IF Qualifying # {} THEN Cardinality(Qualifying) ELSE Len(products)

\* C6 as amended: select_top_products returns distinct candidates; exactly
\* min(top_n, n) of the n passed in when no budget range is defined; with a
\* budget range at least min(top_n, q) and at most min(top_n, n), where q is
\* the number of candidates with an unknown price or a price within
\* [0.7 * budget_min, 1.3 * budget_max] (n when there is none); and exactly
\* min(top_n, q) when neither end of the range is 0.
C6_ReturnsMinOfKept ==
    spc = "selected" =>
      /\ Cardinality(Range(selected)) = Len(selected)
      /\ Range(selected) \subseteq 1..Len(products)
      /\ ~BudgetDefined => Len(selected) = Min(top_n, Len(products))
      /\ BudgetDefined =>
           /\ Len(selected) >= Min(top_n, Kept)
           /\ Len(selected) <= Min(top_n, Len(products))
      /\ BudgetApplied => Len(selected) = Min(top_n, Kept)

\* C6 witness: the budget filter left fewer candidates than top_n asks for, out
\* of enough candidates passed in.
C6_Witness ==
    /\ spc = "selected"
    /\ BudgetApplied
    /\ Len(products) >= top_n
    /\ top_n >= 2
    /\ Len(selected) = 1

\* C7: the returned list is in descending score order with equal scores in
\* input order; with no budget it is exactly the first min(top_n, n) candidates
\* of that order (scores 90, 80, 70, 60, 50 and top_n = 3 give the first three).
C7_StableDescending ==
    spc = "selected" =>
      /\ \A a, b \in 1..Len(selected) : a < b => RanksBefore(selected[a], selected[b])
      /\ ~BudgetDefined =>
           /\ Len(selected) = Min(top_n, Len(products))
           /\ \A i \in Range(selected), k \in (1..Len(products)) \ Range(selected) :
                RanksBefore(i, k)
      /\ (products = ExampleProducts /\ top_n = 3 /\ ~BudgetDefined) =>
           selected = <<1, 2, 3>>

\* C7 witness: no budget, the list passed in is not in descending order, the two
\* returned candidates have equal scores and a lower-scored candidate that came
\* first in the input is left out.
C7_Witness ==
    /\ spc = "selected"
    /\ ~BudgetDefined
    /\ Len(products) = 3
    /\ selected = <<2, 3>>
    /\ ScoreOf(2) = ScoreOf(3)
    /\ ScoreOf(1) < ScoreOf(2)

\* C8: when a budget range is defined, every returned item has an unknown price
\* or a price within [0.7 * budget_min, 1.3 * budget_max], unless no candidate
\* is such, and then the result is the head of the unfiltered sorted list; a
\* candidate with unknown price is never removed by the budget filter.
C8_BudgetRespected ==
    (spc = "selected" /\ BudgetDefined) =>
      /\ Qualifying # {} => Range(selected) \subseteq Qualifying
      /\ Qualifying = {} =>
           /\ Len(selected) = Min(top_n, Len(products))
           /\ \A i \in Range(selected), k \in (1..Len(products)) \ Range(selected) :
                RanksBefore(i, k)
      /\ top_n >= Len(products) =>
           \A i \in 1..Len(products) : UnknownPrice(i) => i \in Range(selected)

\* What holds of the code for C8: the same, for a budget whose two ends are
\* both set and not 0.
C8_BudgetRespectedWhenApplied ==
    (spc = "selected" /\ BudgetApplied) =>
      /\ Qualifying # {} => Range(selected) \subseteq Qualifying
      /\ Qualifying = {} =>
           /\ Len(selected) = Min(top_n, Len(products))
           /\ \A i \in Range(selected), k \in (1..Len(products)) \ Range(selected) :
                RanksBefore(i, k)
      /\ top_n >= Len(products) =>
           \A i \in 1..Len(products) : UnknownPrice(i) => i \in Range(selected)


\* ------------------------------------------------------- claims, SpecScore

ScoredText == combined_text(cand)

\* the items of the list kws that occur in the scored text, as positions
MatchingAt(kws) == {i \in 1..Len(kws) : Contains(ScoredText, Lower(kws[i]))}

\* the (style, keyword) pairs of the preferred styles whose keyword occurs in
\* the scored text
MatchingStyleKeywords ==
    {<<i, k>> \in (1..Len(score_prefs.style)) \X (1..5) :
       /\ k <= Len(STYLE_KEYWORDS(score_prefs.style[i]))
       /\ Contains(ScoredText, STYLE_KEYWORDS(score_prefs.style[i])[k])}

\* what the free keywords add to the score
KeywordTerm == score - score_nokw
KeywordTermMore == score_more - score_nokw

\* C9: for a fixed candidate and otherwise fixed preferences, one more free
\* keyword that matches the candidate text never lowers the score, and the
\* free-keyword term is never above 10 however many keywords match.
C9_MonotonicInKeywords ==
    rpc = "scored" =>
      /\ Contains(ScoredText, Lower(extra_keyword)) => score_more >= score
      /\ KeywordTerm \in 0..10
      /\ KeywordTermMore \in 0..10
      /\ KeywordTerm = Min(10, 3 * Cardinality(MatchingAt(score_prefs.keywords)))

\* C9 witness: three free keywords match (9 points), a fourth matching keyword
\* is added and the cap holds the term at 10.
C9_Witness ==
    /\ rpc = "scored"
    /\ Cardinality(MatchingAt(score_prefs.keywords)) = 3
    /\ Contains(ScoredText, Lower(extra_keyword))
    /\ KeywordTerm = 9
    /\ KeywordTermMore = 10
    /\ score_more = score + 1

\* the budget term as claimed: 20 for an extracted price within
\* [budget_min, budget_max], else 10 within [0.8 * budget_min, 1.2 * budget_max],
\* else 0, for every budget range
ClaimedBudgetTerm(defined) ==
    LET price == _extract_price(ScoredText)
        lo == score_prefs.budget_min
        hi == score_prefs.budget_max
    IN IF price = NoneInt \/ ~defined THEN 0
       ELSE IF lo <= price /\ price <= hi THEN 20
       ELSE IF 8 * lo <= 10 * price /\ 10 * price <= 12 * hi THEN 10
       ELSE 0

ClaimedScore(defined) ==
    (IF Contains(ScoredText, "musinsa") \/ Contains(ScoredText, "{mu-sin-sa}")
     THEN 25 ELSE 0)
    + Min(10, 2 * Cardinality(MatchingStyleKeywords))
    + Min(15, 5 * Cardinality(MatchingAt(score_prefs.brand)))
    + ClaimedBudgetTerm(defined)
    + Min(10, 3 * Cardinality(MatchingAt(score_prefs.keywords)))

\* C10: the score is the sum of five capped terms: 25 for the marketplace,
\* min(10, 2 * matching style keywords), min(15, 5 * matching brands), the budget
\* term (20 within the range, else 10 within [0.8 * min, 1.2 * max], else 0, for
\* every budget range including budget_min = 0), min(10, 3 * matching keywords).
C10_SumOfFiveTerms ==
    rpc = "scored" =>
      score = ClaimedScore(score_prefs.budget_min # NoneInt
                             /\ score_prefs.budget_max # NoneInt)

\* What holds of the code for C10: the same sum, with the budget term counted
\* only for a budget whose two ends are both set and not 0.
C10_SumWhenBudgetNotZero ==
    rpc = "scored" =>
      score = ClaimedScore(Truthy(score_prefs.budget_min)
                             /\ Truthy(score_prefs.budget_max))

\* C10 failing state: budget_min = 0, the extracted price is within
\* [budget_min, budget_max], and the score holds nothing for the budget.
C10_ZeroBudgetMinScoresNothing ==
    /\ rpc = "scored"
    /\ score_prefs.budget_min = 0
    /\ score_prefs.budget_max = 200000
    /\ _extract_price(ScoredText) = 150000
    /\ score + 20 = ClaimedScore(TRUE)


\* C29: every score of _calculate_relevance_score is between 0 and 80, the sum
\* of the greatest values of its five components 25 + 10 + 15 + 20 + 10.
C29_ScoreAtMost80 ==
    rpc = "scored" =>
        /\ score \in 0..80
        /\ score_more \in 0..80
        /\ score_nokw \in 0..80

\* C29 witness: a candidate reaches 80, with four matching free keywords (12
\* points before the cap) and every other component at its greatest value.
C29_Witness ==
    /\ rpc = "scored"
    /\ score_more = 80
    /\ Len(score_prefs.keywords) = 3
    /\ score = 79
    /\ score_nokw = 70

\* ----------------------------------------------------- claims, SpecCompare

\* the value score as claimed, in hundredths: the price component, the rating
\* component for every extracted rating, 0 included, the discount bonus
ClaimedValueScore(info) ==
    RoundHundredths(
      (IF info.final_price # NoneInt THEN Max(0, 50 * 20000 - info.final_price)
       ELSE 25 * 20000)
      + (IF info.musinsa_rating # NoneInt THEN info.musinsa_rating * 2000
         ELSE 25 * 20000)
      + (IF info.discount_rate # NoneInt THEN Min(10 * 20000, info.discount_rate * 400)
         ELSE 0))

\* C11: the value score is price component + rating component + discount
\* bonus: max(0, 50 - 0.5 * price / 10000) for a known final price and 25 only
\* for an unknown one, (rating / 5) * 50 for an extracted rating, 0 included, and
\* 25 only for an unknown one, min(10, 0.2 * discount_rate) for a known rate.
C11_ValueScoreIsSum ==
    cpc = "compared" =>
      \A i \in 1..Len(products_data) :
        products_data[i].value_score = ClaimedValueScore(products_data[i].info)

\* What holds of the code for C11: the same sum for every product whose
\* extracted rating is not 0.
C11_ValueScoreIsSumUnlessRatingZero ==
    cpc = "compared" =>
      \A i \in 1..Len(products_data) :
        products_data[i].info.musinsa_rating # 0 =>
          products_data[i].value_score = ClaimedValueScore(products_data[i].info)

\* C11 failing state: a product priced 5,000 won with an extracted rating of 0
\* and no discount is scored 74.75, not 49.75.
C11_RatingZeroScoredAsUnknown ==
    /\ cpc = "compared"
    /\ \E i \in 1..Len(products_data) :
         /\ products_data[i].info =
              [final_price |-> 5000, musinsa_rating |-> 0, discount_rate |-> NoneInt]
         /\ products_data[i].value_score = 7475
         /\ ClaimedValueScore(products_data[i].info) = 4975

\* C12: the product named in the final recommendation has a value score greater
\* than or equal to that of every product of the comparison.
C12_WinnerHasBestScore ==
    (cpc = "compared" /\ report.kind = "table") =>
      \E w \in 1..Len(products_data) :
        /\ products_data[w].name = report.final_recommendation
        /\ \A i \in 1..Len(infos) :
             products_data[w].value_score >= calculate_value_score(infos[i])

\* C12 witness: three products, the one passed in last scores strictly best and
\* is the one recommended.
C12_Witness ==
    /\ cpc = "compared"
    /\ Len(infos) = 3
    /\ report = [kind |-> "table", final_recommendation |-> 3]
    /\ calculate_value_score(infos[3]) > calculate_value_score(infos[1])
    /\ calculate_value_score(infos[3]) > calculate_value_score(infos[2])


\* C26: the value score of every record the extractors can produce is between
\* 0 and 100 (value scores are in hundredths).
C26_ValueScoreInRange ==
    cpc = "compared" =>
        \A i \in 1..Len(products_data) :
           products_data[i].value_score >= 0 /\ products_data[i].value_score <= 100 * 100

\* C26, the bound the code keeps: 50 + 50 + 10.
C26_ValueScoreAtMost110 ==
    cpc = "compared" =>
        \A i \in 1..Len(products_data) :
           products_data[i].value_score >= 0 /\ products_data[i].value_score <= 110 * 100

\* C26, the failing case: a final price of 5,000 won, a rating of 5.0 and a
\* discount of 60% score 109.75.
C26_ScoreAboveHundred ==
    /\ cpc = "compared"
    /\ \E i \in 1..Len(products_data) :
         /\ products_data[i].info =
               [final_price |-> 5000, musinsa_rating |-> 500, discount_rate |-> 600]
         /\ products_data[i].value_score = 10975

\* ------------------------------------------------------- claims, SpecPrice

\* the text extract_price_info scans
ScannedText == price_combined_text(search_results)

\* the mention is a number followed or preceded by a currency unit
StatesCurrencyAmount(m) ==
    m.form \in {"anchored", "list_prefix", "list_suffix", "tagged", "bare", "won_sign",
                "shipping_fee"}

\* the scanned text has no number with a currency unit
NoCurrencyAmount == \A i \in 1..Len(ScannedText) : ~StatesCurrencyAmount(ScannedText[i])

\* the scanned text has a mention of the form
Mentions(form) == \E i \in 1..Len(ScannedText) : ScannedText[i].form = form

\* C13 as stated: for a text with no number followed or preceded by a currency
\* unit, extract_price_info returns all five fields None.
C13_AllNoneWithoutCurrency ==
    (xpc = "extracted" /\ NoCurrencyAmount) => price_info = EmptyPriceInfo

\* C13, amended: for such a text the three prices are None; discount_rate is
\* None or a percentage between 1 and 99 the text states; shipping_cost is None,
\* or 0 when the text says free shipping, or cash on delivery when it says so;
\* all five are None when the text states none of these.
C13_PricesNoneWithoutCurrency ==
    (xpc = "extracted" /\ NoCurrencyAmount) =>
        /\ price_info.current_price = NoneInt
        /\ price_info.original_price = NoneInt
        /\ price_info.final_price = NoneInt
        /\ \/ price_info.discount_rate = NoneInt
           \/ \E i \in 1..Len(ScannedText) :
                /\ ScannedText[i].form = "discount"
                /\ ScannedText[i].amount \in MinDiscount..MaxDiscount
                /\ price_info.discount_rate = 10 * ScannedText[i].amount
        /\ \/ price_info.shipping_cost = NoneInt
           \/ price_info.shipping_cost = 0 /\ Mentions("free_shipping")
           \/ price_info.shipping_cost = CashOnDelivery /\ Mentions("cash_on_delivery")
        /\ (~Mentions("discount") /\ ~Mentions("free_shipping") /\ ~Mentions("cash_on_delivery"))
              => price_info = EmptyPriceInfo

\* C13, witness: a text with a number without unit and a discount percentage is
\* scanned: no price, the discount rate returned.
C13_Witness ==
    /\ xpc = "extracted"
    /\ NoCurrencyAmount
    /\ Mentions("no_unit")
    /\ Mentions("discount")
    /\ price_info.current_price = NoneInt
    /\ price_info.discount_rate = 300


\* C14: whenever extract_price_info returns both original_price and
\* current_price, original_price >= current_price.
C14_OriginalAtLeastCurrent ==
    (/\ xpc = "extracted"
     /\ price_info.original_price # NoneInt
     /\ price_info.current_price # NoneInt)
        => price_info.original_price >= price_info.current_price

\* C14, the failing case: a sales price of 80,000 won and a list price of
\* 10,000 won are both found, and the list price returned is the lower one.
C14_ListPriceBelowCurrent ==
    /\ xpc = "extracted"
    /\ ScannedText = <<Mention("anchored", 80000), Mention("list_suffix", 10000)>>
    /\ price_info.current_price = 80000
    /\ price_info.original_price = 10000
    /\ price_info.discount_rate = NoneInt


\* the list price is derived: a current price and a discount rate were found in
\* the text and no list price was
OriginalDerived ==
    /\ xpc = "extracted"
    /\ price_info.current_price # NoneInt
    /\ discount_rates(ScannedText) # {}
    /\ original_prices(ScannedText) = {}

\* C15: a derived original_price is current_price / (1 - discount_rate/100)
\* rounded to the nearest integer.
C15_DerivedOriginalIsNearest ==
    OriginalDerived =>
        price_info.original_price =
            RoundedOriginal(price_info.current_price, MaxOf(discount_rates(ScannedText)))

\* C15, what the code computes: the quotient with its fraction cut off.
C15_DerivedOriginalIsTruncated ==
    OriginalDerived =>
        /\ price_info.original_price * (100 - MaxOf(discount_rates(ScannedText)))
              <= price_info.current_price * 100
        /\ (price_info.original_price + 1) * (100 - MaxOf(discount_rates(ScannedText)))
              > price_info.current_price * 100

\* C15, the failing case: 80,000 won at 30% off gives 114285, and
\* 80000 / 0.7 = 114285.71 is nearer to 114286.
C15_DerivedOriginalBelowNearest ==
    /\ OriginalDerived
    /\ price_info.current_price = 80000
    /\ price_info.discount_rate = 300
    /\ price_info.original_price = 114285
    /\ RoundedOriginal(80000, 30) = 114286


\* the discount rate found in the text, in tenths of a percent, or NoneInt
ExtractedRate ==
    IF discount_rates(ScannedText) # {} THEN 10 * MaxOf(discount_rates(ScannedText))
    ELSE NoneInt

\* the list price found in the text, or NoneInt
ExtractedOriginal ==
    IF original_prices(ScannedText) # {} THEN MaxOf(original_prices(ScannedText))
    ELSE NoneInt

\* reconciliation set discount_rate / original_price
RateDerived == xpc = "extracted" /\ price_info.discount_rate # ExtractedRate
ListPriceDerived == xpc = "extracted" /\ price_info.original_price # ExtractedOriginal

\* C16: discount_rate is derived only when both prices are known, no rate was
\* extracted and original_price > current_price; an extracted rate is returned
\* unchanged; original_price and discount_rate are never both derived.
C16_DerivesOnlyMissingRate ==
    /\ RateDerived =>
          /\ price_info.current_price # NoneInt
          /\ price_info.original_price # NoneInt
          /\ ExtractedRate = NoneInt
          /\ price_info.original_price > price_info.current_price
    /\ (xpc = "extracted" /\ ExtractedRate # NoneInt) => price_info.discount_rate = ExtractedRate
    /\ ~(RateDerived /\ ListPriceDerived)

\* C16, the parts the code keeps: discount_rate is derived only from two known
\* prices with original_price > current_price, and never together with
\* original_price.
C16_DerivesFromTwoPricesOnly ==
    /\ RateDerived =>
          /\ price_info.current_price # NoneInt
          /\ price_info.original_price # NoneInt
          /\ price_info.original_price > price_info.current_price
          /\ price_info.discount_rate =
                DerivedDiscount(price_info.current_price, price_info.original_price)
    /\ ~(RateDerived /\ ListPriceDerived)

\* C16, the failing case: the text states 80,000 won, a list price of 120,000
\* won and 30% off; the rate returned is the derived 33.3.
C16_ExtractedRateOverwritten ==
    /\ xpc = "extracted"
    /\ price_info.current_price = 80000
    /\ price_info.original_price = 120000
    /\ ExtractedRate = 300
    /\ price_info.discount_rate = 333


\* C17: a discount_rate returned by extract_price_info or by _extract_price is
\* an integer between 1 and 99.
C17_DiscountRateIsWholePercent ==
    /\ (xpc = "extracted" /\ price_info.discount_rate # NoneInt) =>
          /\ price_info.discount_rate % 10 = 0
          /\ price_info.discount_rate \div 10 \in MinDiscount..MaxDiscount
    /\ (xpc = "extracted" /\ simple_discount # NoneInt) =>
          simple_discount \in MinDiscount..MaxDiscount

\* C17, where it does hold: a rate of extract_price_info that was not derived
\* from two prices is an integer between 1 and 99.
C17_ExtractedRateIsWholePercent ==
    (xpc = "extracted" /\ price_info.discount_rate # NoneInt /\ ~RateDerived) =>
        /\ price_info.discount_rate % 10 = 0
        /\ price_info.discount_rate \div 10 \in MinDiscount..MaxDiscount

\* C17, the failing case: for 80,000 won, a list price of 120,000 won and
\* `100% off` extract_price_info returns 33.3 and _extract_price returns 100.
C17_FractionalAndOutOfRange ==
    /\ xpc = "extracted"
    /\ price_info.current_price = 80000
    /\ price_info.original_price = 120000
    /\ price_info.discount_rate = 333
    /\ simple_discount = 100


\* the candidates of the fallback scan in the order of the sort, and the prices
\* of those with / without a price keyword
FallbackCandidates == all_price_candidates(ScannedText)
TaggedPrices ==
    {FallbackCandidates[k][1] : k \in {j \in 1..Len(FallbackCandidates) : FallbackCandidates[j][2]}}
UntaggedPrices ==
    {FallbackCandidates[k][1] : k \in {j \in 1..Len(FallbackCandidates) : ~FallbackCandidates[j][2]}}

\* no keyword-anchored match, and a fallback candidate near a price keyword
TaggedFallback ==
    /\ xpc = "extracted"
    /\ context_prices(ScannedText) = {}
    /\ TaggedPrices # {}

\* C18: with no keyword-anchored match and a keyword-tagged fallback candidate,
\* current_price is the first candidate of the ordering `keyword-tagged first,
\* then document position`: the earliest keyword-tagged candidate.
C18_PicksEarliestTagged ==
    TaggedFallback => price_info.current_price = FallbackCandidates[1][1]

\* C18, what the code picks: the lowest keyword-tagged candidate.
C18_PicksLowestTagged ==
    TaggedFallback => price_info.current_price = MinOf(TaggedPrices)

\* C18, the failing case: `the price is 80,000 won` comes before `the price is
\* 50,000 won`, and current_price is 50,000.
C18_LaterTaggedPicked ==
    /\ TaggedFallback
    /\ ScannedText = <<Mention("tagged", 80000), Mention("tagged", 50000)>>
    /\ FallbackCandidates[1][1] = 80000
    /\ price_info.current_price = 50000

\* the fallback scan yields candidates, none of them near a price keyword
UntaggedFallback ==
    /\ xpc = "extracted"
    /\ context_prices(ScannedText) = {}
    /\ TaggedPrices = {}
    /\ UntaggedPrices # {}

ScannedRatings == rating_combined_text(rating_results)

RECURSIVE StatedRatings(_)
\* the ratings between 0 and 5 stated by the mentions a pattern finds, each
\* mention once
StatedRatings(text) ==
    IF text = <<>> THEN <<>>
    ELSE (IF /\ PatternMatches(Head(text)) # <<>>
             /\ MinRating <= Head(text).value /\ Head(text).value <= MaxRating
          THEN <<Head(text).value>> ELSE <<>>)
           \o StatedRatings(Tail(text))

\* C20: when a rating mention in [0, 5] is found, the rating returned is the
\* mean of the found mentions rounded to 2 decimals and lies in [0, 5]; a value
\* outside [0, 5] does not contribute.
C20_MeanOfMentions ==
    (gpc = "extracted" /\ StatedRatings(ScannedRatings) # <<>>) =>
        /\ rating_info.musinsa_rating = MeanRating(StatedRatings(ScannedRatings))
        /\ rating_info.musinsa_rating \in MinRating..MaxRating

\* C20, where it does hold: the rating is in [0, 5], and it is the mean of the
\* mentions when each is written with `/5` and without the marketplace's name.
C20_MeanOfSinglyMatchedMentions ==
    (gpc = "extracted" /\ StatedRatings(ScannedRatings) # <<>>) =>
        /\ rating_info.musinsa_rating \in MinRating..MaxRating
        /\ (\A i \in 1..Len(ScannedRatings) :
               ScannedRatings[i].form \notin {"musinsa_labelled", "no_scale"})
              => rating_info.musinsa_rating = MeanRating(StatedRatings(ScannedRatings))

\* C20, the failing case: the mentions are 4.5 (with the marketplace's name) and
\* 4.0; the rating returned is 4.33, the mean being 4.25.
C20_MentionCountedTwice ==
    /\ gpc = "extracted"
    /\ StatedRatings(ScannedRatings) = <<450, 400>>
    /\ ScannedRatings[1].form = "musinsa_labelled"
    /\ MeanRating(<<450, 400>>) = 425
    /\ rating_info.musinsa_rating = 433


\* ------------------------------------------------------ claims, SpecFormat

\* the number of user keywords that occur in the product's title or content
KeywordMatches(i) ==
    Cardinality({k \in 1..Len(user_keywords) :
                   Contains(product_text(response[i]), Lower(user_keywords[k]))})

\* the score is the share of matching keywords in percent, cut to an integer,
\* and 50 without keywords
IsKeywordMatchScore(s, i) ==
    /\ s \in 0..100
    /\ IF user_keywords = <<>> THEN s = 50
       ELSE /\ s * Len(user_keywords) <= 100 * KeywordMatches(i)
            /\ (s + 1) * Len(user_keywords) > 100 * KeywordMatches(i)

\* C25: when the LLM call fails for a candidate, its score is the heuristic
\* keyword-match score (an integer in 0..100, 50 without keywords) with the
\* fallback reason; the other candidates keep the score of their own call;
\* format_recommendations goes on, scores every candidate and returns them
\* ranked by score.
C25_HeuristicOnLLMFailure ==
    /\ Len(answers) = Len(scored_products)
    /\ \A i \in 1..Len(scored_products) :
         /\ scored_products[i].idx = i
         /\ ~answers[i].ok =>
              /\ IsKeywordMatchScore(scored_products[i].score, i)
              /\ scored_products[i].reason = "keyword_matching"
         /\ answers[i].ok =>
              /\ scored_products[i].score =
                    (IF answers[i].score = NoneInt THEN 50 ELSE answers[i].score)
              /\ scored_products[i].reason = "llm"
    /\ fpc = "scoring" => ENABLED NextFormat
    /\ fpc = "formatted" =>
         /\ Len(scored_products) = Len(response)
         /\ Len(recommendations) = Min(5, Len(response))
         /\ \A k \in 1..Len(recommendations) :
              /\ recommendations[k].rank = k
              /\ \E i \in 1..Len(scored_products) :
                   /\ recommendations[k].idx = i
                   /\ recommendations[k].score = scored_products[i].score
              /\ \A h \in 1..(k - 1) :
                   /\ recommendations[h].score >= recommendations[k].score
                   /\ recommendations[h].idx # recommendations[k].idx

\* C25 witness: the LLM call failed for the first of three candidates and
\* answered for the others; all three are in the ranked list, the first with
\* its keyword-match score of 66.
C25_Witness ==
    /\ fpc = "formatted"
    /\ Len(response) = 3
    /\ ~answers[1].ok /\ answers[2].ok /\ answers[3].ok
    /\ Len(user_keywords) = 3
    /\ scored_products[1].score = 66
    /\ Len(recommendations) = 3
    /\ recommendations[2].idx = 1


\* ------------------------------------------------------- claims, SpecParse

\* the budget phrases of the text
BudgetItems == {i \in 1..Len(preference_input) : preference_input[i].form # "word"}

\* the text has one budget phrase, of the form
OnlyBudget(form) ==
    /\ ppc = "parsed"
    /\ Cardinality(BudgetItems) = 1
    /\ \A i \in BudgetItems : preference_input[i].form = form

\* the numbers of the first budget phrase
BudgetA == preference_input[MinOf(BudgetItems)].a
BudgetB == preference_input[MinOf(BudgetItems)].b

\* C28: `N{man-won-dae}` gives budget_min = N * 10000 and budget_max =
\* (N + 9) * 10000 for every positive N of one or more digits, `A~B{man-won}`
\* gives A * 10000 and B * 10000, and no later pattern changes what an earlier
\* matching pattern set.
C28_BudgetOfPhrase ==
    /\ OnlyBudget("decade") =>
          /\ preferences.budget_min = BudgetA * 10000
          /\ preferences.budget_max = (BudgetA + 9) * 10000
    /\ OnlyBudget("range") =>
          /\ preferences.budget_min = BudgetA * 10000
          /\ preferences.budget_max = BudgetB * 10000

\* C28, where it does hold: for a range, and for a single amount of one digit.
C28_BudgetOfRangeOrOneDigit ==
    /\ (OnlyBudget("decade") /\ BudgetA < 10) =>
          /\ preferences.budget_min = BudgetA * 10000
          /\ preferences.budget_max = (BudgetA + 9) * 10000
    /\ (OnlyBudget("decade") /\ BudgetA >= 10) =>
          /\ preferences.budget_min = (BudgetA \div 10) * 10000
          /\ preferences.budget_max = (BudgetA % 10) * 10000
    /\ OnlyBudget("range") =>
          /\ preferences.budget_min = BudgetA * 10000
          /\ preferences.budget_max = BudgetB * 10000

\* C28, the failing case: `30{man-won-dae}` gives budget_min 30,000 and
\* budget_max 0, the last pattern reading it as the range 3~0.
C28_TwoDigitAmountSplit ==
    /\ ppc = "parsed"
    /\ preference_input = <<Item("decade", 30, 0, "")>>
    /\ preferences.budget_min = 30000
    /\ preferences.budget_max = 0
    /\ preferences.budget = [kind |-> "range", a |-> 3, b |-> 0]

====
